---- MODULE Spec2Model ----
(***************************************************************************)
(* A model of the Challonge API client (src/challonge/challonge.py) and    *)
(* the pydantic resource models it parses into (src/challonge/models.py).  *)
(*                                                                         *)
(* One client object is constructed, then used for a sequence of endpoint  *)
(* calls.  A call builds its request, hands it to requests.Session, gets   *)
(* a response (or a transport failure) from the network, and turns the     *)
(* response into a typed result or an exception.                           *)
(*                                                                         *)
(* Spec runs whole calls against every answer of the network, with the     *)
(* path parameters as the only arguments.  SpecRequest runs calls on a     *)
(* constructed client with every argument a caller can pass, to look at    *)
(* the query string and the body that go out.  SpecParse runs parse_obj    *)
(* and dict() of the model classes, field by field, on the resources a     *)
(* server can answer with.  SpecThreads runs two calls at the same time    *)
(* on one client.  SpecBot runs the command handlers of the Discord bot    *)
(* (src/sual.py) on their event loop, against what the client's methods    *)
(* return or raise.                                                        *)
(***************************************************************************)
EXTENDS Integers, Sequences, FiniteSets, TLC

VARIABLES
    client,     \* the Challonge object: base_url and session headers, or NoClient
    ctor,       \* the frame of the last __init__ call: its arguments and exception
    pc,         \* "new" | "constructed" | "calling" | "waiting" | "received"
                \* | "returned" | "idle"
    op,         \* name of the endpoint method being executed (or last executed)
    wire,       \* the request handed to session.request for the current call
    response,   \* what the network answered for the current call
    resp,       \* what _request returned or raised to the endpoint method
    outcome,    \* what the last finished call returned or raised
    decoded,    \* TRUE when the current call ran response.json()
    nreq,       \* session.request calls made by the current call
    calls,      \* endpoint calls started on this client
    sent,       \* session.request calls made on this client
    arg,        \* the arguments the caller passed to the current endpoint call
    parse,      \* the frame of the last parse_obj call made on a model class
    dump,       \* the frame of the last dict() call made on a parsed record
    caller,     \* the mapping and the list the caller passed, as they are now
    threads,    \* the frames of the calls that run concurrently on the client
    current_tournament_id,  \* the global of sual.py, line 24
    tasks,      \* the frames of the bot's command handler invocations
    running     \* the handler that holds the event loop, or "none"

vars == <<client, ctor, pc, op, wire, response, resp, outcome, decoded, nreq, calls, sent,
          arg, parse, dump, caller, threads, current_tournament_id, tasks, running>>

\* The variables of the concurrent calls and of the bot.
layers == <<threads, current_tournament_id, tasks, running>>

-----------------------------------------------------------------------------
(* Bounds *)

MaxItems == 2      \* longest JSON array the server answers with
MaxCalls == 2      \* endpoint calls made on one client

-----------------------------------------------------------------------------
(* JSON values.  Every value is a record tagged by `kind`; a dict carries   *)
(* every key the model looks at, with Absent for a key that is not there.   *)

Absent == [kind |-> "absent"]
Null == [kind |-> "null"]
JStr(s) == [kind |-> "str", s |-> s]
JInt(n) == [kind |-> "int", n |-> n]
JList(items) == [kind |-> "list", items |-> items]
EmptyDict ==
    [kind |-> "dict", data |-> Absent, id |-> Absent, type |-> Absent,
     attributes |-> Absent, name |-> Absent, tournament_type |-> Absent]
DictKeys == {"data", "id", "type", "attributes", "name", "tournament_type"}

Attrs(name, ttype) == [EmptyDict EXCEPT !.name = name, !.tournament_type = ttype]
Resource(id, attributes) ==
    [EmptyDict EXCEPT !.id = id, !.type = JStr("resource"), !.attributes = attributes]
Envelope(data) == [EmptyDict EXCEPT !.data = data]

\* The resource objects the server puts in its answers: one complete, one
\* whose attributes lack tournament_type, one without an id.
Item1 == Resource(JStr("1"), Attrs(JStr("A"), JStr("single elimination")))
Item2 == Resource(JStr("2"), Attrs(JStr("B"), Absent))
Item3 == Resource(Absent, Attrs(JStr("C"), JStr("swiss")))
Items == {Item1, Item2, Item3}

SeqsUpTo(S, n) == UNION {[1..k -> S] : k \in 0..n}
ItemLists == SeqsUpTo(Items, MaxItems)

\* The decoded bodies the server may answer with.
Bodies ==
    {Null, JStr("x"), JStr(""), JInt(7), EmptyDict}
    \cup {JList(s) : s \in ItemLists}
    \cup {Envelope(JList(s)) : s \in ItemLists}
    \cup Items
    \cup {Envelope(i) : i \in Items}
    \cup {[Item1 EXCEPT !.data = Item2], [Item3 EXCEPT !.data = Item1]}
    \cup {Envelope(JStr("x")), Envelope(Null), Envelope(EmptyDict)}

-----------------------------------------------------------------------------
(* Python values and exceptions.  None is Null, a str is JStr, a list is    *)
(* JList; a parsed pydantic model is a record of kind "model".              *)

NoResponse == [kind |-> "none"]
Return(v) == [kind |-> "return", value |-> v]
Raise(exc) == [kind |-> "raise", exc |-> exc, response |-> NoResponse]
RaiseWith(exc, r) == [kind |-> "raise", exc |-> exc, response |-> r]

\* bool(v) is False
Falsy(v) ==
    \/ v.kind = "null"
    \/ v.kind = "dict" /\ \A k \in DictKeys : v[k] = Absent
    \/ v.kind = "list" /\ v.items = <<>>
    \/ v.kind = "str" /\ v.s = ""
    \/ v.kind = "int" /\ v.n = 0

\* `"data" in v`: a key test on a dict, a membership test on a list, a
\* substring test on a str (no str of Bodies is as long as "data"), and a
\* TypeError on None and on a number.
HasData(v) ==
    CASE v.kind = "dict" -> Return(v.data # Absent)
      [] v.kind = "list" -> Return(\E i \in DOMAIN v.items : v.items[i] = JStr("data"))
      [] v.kind = "str" -> Return(v.s = "data")
      [] OTHER -> Raise("TypeError")

\* v["data"]
GetData(v) ==
    CASE v.kind = "dict" -> IF v.data # Absent THEN Return(v.data) ELSE Raise("KeyError")
      [] OTHER -> Raise("TypeError")

\* v[0]
GetFirst(v) ==
    CASE v.kind = "list" -> IF v.items # <<>> THEN Return(v.items[1]) ELSE Raise("IndexError")
      [] v.kind = "str" -> IF v.s # "" THEN Return(v) ELSE Raise("IndexError")
      [] v.kind = "dict" -> Raise("KeyError")
      [] OTHER -> Raise("TypeError")

\* Keys of a dict in the order the model writes them.
KeyOrder == <<"data", "id", "type", "attributes", "name", "tournament_type">>
RECURSIVE KeysFrom(_, _)
KeysFrom(v, i) ==
    IF i > Len(KeyOrder) THEN <<>>
    ELSE (IF v[KeyOrder[i]] # Absent THEN <<JStr(KeyOrder[i])>> ELSE <<>>)
         \o KeysFrom(v, i + 1)

\* What `for item in v` visits: the elements of a list, the keys of a dict,
\* the characters of a str (the strs of Bodies have at most one).
Iterate(v) ==
    CASE v.kind = "list" -> Return(v.items)
      [] v.kind = "dict" -> Return(KeysFrom(v, 1))
      [] v.kind = "str" -> Return(IF v.s = "" THEN <<>> ELSE <<v>>)
      [] OTHER -> Raise("TypeError")

-----------------------------------------------------------------------------
(* Resource models, src/challonge/models.py *)

Models ==
    {"TournamentModel", "MatchModel", "ParticipantModel", "MatchAttachmentModel",
     "RaceModel", "RoundModel", "ElapsedTimeModel", "CommunityModel", "UserModel"}

\* The attribute fields of each model's `attributes` class, among the keys
\* the model's dicts carry, and those declared without a default.
AttrFields(T) ==
    CASE T = "TournamentModel" -> {"name", "tournament_type"}
      [] T \in {"ParticipantModel", "RaceModel", "CommunityModel"} -> {"name"}
      [] OTHER -> {}
RequiredAttrFields(T) ==
    IF T = "TournamentModel" THEN {"name", "tournament_type"} ELSE {}

\* A field declared `str` takes a str; one declared Optional[str] = None also
\* takes null and may be absent.  (The ids, types and names of Bodies are
\* strs or absent; what pydantic makes of a number there is not modelled.)
FieldOk(x, required) ==
    IF required THEN x.kind = "str" ELSE x.kind \in {"str", "null", "absent"}
FieldValue(x) == IF x.kind = "str" THEN x ELSE Null

AttributesOk(T, a) ==
    /\ a.kind = "dict"
    /\ \A f \in AttrFields(T) : FieldOk(a[f], f \in RequiredAttrFields(T))

\* T.parse_obj(v): the record pydantic builds, fields outside the model
\* dropped and optional fields that are absent set to None, or ValidationError.
ParseObj(T, v) ==
    IF /\ v.kind = "dict"
       /\ FieldOk(v.id, TRUE)
       /\ FieldOk(v.type, TRUE)
       /\ AttributesOk(T, v.attributes)
    THEN Return([kind |-> "model", model |-> T, id |-> v.id.s, type |-> v.type.s,
                 attributes |-> [f \in AttrFields(T) |-> FieldValue(v.attributes[f])]])
    ELSE Raise("ValidationError")

\* A comprehension that builds its list back to front.
ParseEachReversed(T, x) ==
    LET it == Iterate(x) IN
    IF it.kind = "raise" THEN it
    ELSE LET elems == it.value
             n == Len(elems)
             bad == {i \in DOMAIN elems : ParseObj(T, elems[i]).kind = "raise"}
         IN IF bad # {}
            THEN ParseObj(T, elems[CHOOSE i \in bad : \A j \in bad : i <= j])
            ELSE Return(JList([i \in DOMAIN elems |-> ParseObj(T, elems[n + 1 - i]).value]))

\* [T.parse_obj(item) for item in x]: the first element that does not parse
\* raises, and nothing is returned.
ParseEach(T, x) ==
    LET it == Iterate(x) IN
    IF it.kind = "raise" THEN it
    ELSE LET elems == it.value
             bad == {i \in DOMAIN elems : ParseObj(T, elems[i]).kind = "raise"}
         IN IF bad # {}
            THEN ParseObj(T, elems[CHOOSE i \in bad : \A j \in bad : i <= j])
            ELSE Return(JList([i \in DOMAIN elems |-> ParseObj(T, elems[i]).value]))

-----------------------------------------------------------------------------
(* Responses *)

EmptyContent == [kind |-> "empty"]
Garbage == [kind |-> "garbage"]
JsonText(v) == [kind |-> "json", value |-> v]
Contents == {EmptyContent, Garbage} \cup {JsonText(v) : v \in Bodies}

Statuses == {200, 201, 204, 422, 500}
HttpResponse(status, content) ==
    [kind |-> "response", status_code |-> status, content |-> content]
TransportFailure(exc) == [kind |-> "failure", exc |-> exc]
NetworkOutcomes ==
    {HttpResponse(st, c) : st \in Statuses, c \in Contents}
    \cup {TransportFailure(e) : e \in {"ConnectionError", "Timeout"}}

\* response.json()
Json(content) ==
    IF content.kind = "json" THEN Return(content.value) ELSE Raise("JSONDecodeError")

\* _request with raise_for_status taken to cover server errors only.
_request_5xx_only(r) ==
    IF r.kind = "failure" THEN [out |-> Raise(r.exc), decoded |-> FALSE]
    ELSE IF r.status_code >= 500 /\ r.status_code < 600
    THEN [out |-> RaiseWith("HTTPError", r), decoded |-> FALSE]
    ELSE IF r.status_code = 204 \/ r.content = EmptyContent
    THEN [out |-> Return(Null), decoded |-> FALSE]
    ELSE [out |-> Json(r.content), decoded |-> TRUE]

\* _request with the 204 test left out: only an empty body is no content.
_request_no_204(r) ==
    IF r.kind = "failure" THEN [out |-> Raise(r.exc), decoded |-> FALSE]
    ELSE IF r.status_code >= 400 /\ r.status_code < 600
    THEN [out |-> RaiseWith("HTTPError", r), decoded |-> FALSE]
    ELSE IF r.content = EmptyContent
    THEN [out |-> Return(Null), decoded |-> FALSE]
    ELSE [out |-> Json(r.content), decoded |-> TRUE]

\* _request from the point where session.request has answered: `out` is
\* what it returns or raises, `decoded` whether response.json() was called.
_request(r) ==
    IF r.kind = "failure" THEN [out |-> Raise(r.exc), decoded |-> FALSE]
    ELSE IF r.status_code >= 400 /\ r.status_code < 600
    THEN [out |-> RaiseWith("HTTPError", r), decoded |-> FALSE]
    ELSE IF r.status_code = 204 \/ r.content = EmptyContent
    THEN [out |-> Return(Null), decoded |-> FALSE]
    ELSE [out |-> Json(r.content), decoded |-> TRUE]

-----------------------------------------------------------------------------
(* Construction, Challonge.__init__ *)

NoClient == [kind |-> "none"]
DefaultBaseUrl == "https://api.challonge.com/v2.1"

CtorArgs ==
    [api_key : {Null, JStr(""), JStr("KEY")},
     oauth_token : {Null, JStr(""), JStr("TOKEN")},
     authorization_type : {"v1", "v2", "v3"},
     base_url : {DefaultBaseUrl}]

\* The headers set before the credential is looked at.
BaseHeaders(authorization_type) ==
    [content_type |-> JStr("application/vnd.api+json"),
     accept |-> JStr("application/json"),
     authorization_type |-> JStr(authorization_type),
     user_agent |-> JStr("ChallongePythonClient/1.0"),
     authorization |-> Absent]

\* __init__ taking whichever credential is given, whatever the scheme.
__init__any_credential(c) ==
    IF ~Falsy(c.api_key)
    THEN [exc |-> Null,
          self |-> [kind |-> "client", base_url |-> c.base_url,
                    headers |-> [BaseHeaders(c.authorization_type)
                                 EXCEPT !.authorization = c.api_key]]]
    ELSE IF ~Falsy(c.oauth_token)
    THEN [exc |-> Null,
          self |-> [kind |-> "client", base_url |-> c.base_url,
                    headers |-> [BaseHeaders(c.authorization_type)
                                 EXCEPT !.authorization = JStr("Bearer " \o c.oauth_token.s)]]]
    ELSE [exc |-> JStr("ValueError"), self |-> NoClient]

\* __init__: the object it leaves behind, or the exception it raises (and
\* then there is no object).
__init__(c) ==
    IF c.authorization_type = "v1" /\ ~Falsy(c.api_key)
    THEN [exc |-> Null,
          self |-> [kind |-> "client", base_url |-> c.base_url,
                    headers |-> [BaseHeaders(c.authorization_type)
                                 EXCEPT !.authorization = c.api_key]]]
    ELSE IF c.authorization_type = "v2" /\ ~Falsy(c.oauth_token)
    THEN [exc |-> Null,
          self |-> [kind |-> "client", base_url |-> c.base_url,
                    headers |-> [BaseHeaders(c.authorization_type)
                                 EXCEPT !.authorization = JStr("Bearer " \o c.oauth_token.s)]]]
    ELSE [exc |-> JStr("ValueError"), self |-> NoClient]

-----------------------------------------------------------------------------
(* Endpoint methods, from the point where _request has returned `r`.  Each  *)
(* is what the method returns or raises.                                    *)

\* models.T.parse_obj(resp["data"])
ParseData(T, r) ==
    LET d == GetData(r) IN IF d.kind = "raise" THEN d ELSE ParseObj(T, d.value)

\* [models.T.parse_obj(item) for item in resp["data"]]
ParseEachData(T, r) ==
    LET d == GetData(r) IN IF d.kind = "raise" THEN d ELSE ParseEach(T, d.value)

find_tournaments(r) ==
    IF Falsy(r) THEN Return(JList(<<>>)) ELSE ParseEachData("TournamentModel", r)

create_tournament(r) ==
    ParseData("TournamentModel", r)

show_tournament(r) ==
    ParseData("TournamentModel", r)

update_tournament(r) ==
    ParseData("TournamentModel", r)

delete_tournament(r) ==
    Return(Null)

change_state_tournament(r) ==
    ParseData("TournamentModel", r)

find_matches(r) ==
    IF Falsy(r) THEN Return(JList(<<>>)) ELSE ParseEachData("MatchModel", r)

show_match(r) ==
    ParseObj("MatchModel", r)

update_match(r) ==
    ParseObj("MatchModel", r)

change_state_match(r) ==
    ParseObj("MatchModel", r)

find_participants(r) ==
    IF Falsy(r) THEN Return(JList(<<>>)) ELSE ParseEachData("ParticipantModel", r)

create_participant(r) ==
    IF r.kind = "dict" /\ r.data # Absent THEN ParseObj("ParticipantModel", r.data)
    ELSE IF r.kind = "list" /\ r.items # <<>> THEN ParseObj("ParticipantModel", r.items[1])
    ELSE Raise("ValueError")

show_participant(r) ==
    ParseData("ParticipantModel", r)

update_participant(r) ==
    ParseData("ParticipantModel", r)

delete_participant(r) ==
    Return(Null)

bulk_create_participants(r) ==
    IF Falsy(r) THEN Return(JList(<<>>)) ELSE ParseEachData("ParticipantModel", r)

clear_all_participants(r) ==
    Return(Null)

randomize_participants(r) ==
    IF Falsy(r) THEN Return(JList(<<>>)) ELSE ParseEachData("ParticipantModel", r)

find_match_attachments(r) ==
    IF Falsy(r) THEN Return(JList(<<>>)) ELSE ParseEachData("MatchAttachmentModel", r)

create_match_attachment(r) ==
    ParseObj("MatchAttachmentModel", r)

delete_match_attachment(r) ==
    Return(Null)

find_races(r) ==
    IF Falsy(r) THEN Return(JList(<<>>))
    ELSE IF HasData(r).kind = "raise" THEN HasData(r)
    ELSE IF ~HasData(r).value THEN Return(JList(<<>>))
    ELSE IF GetData(r).kind = "raise" THEN GetData(r)
    ELSE IF GetData(r).value.kind = "list" THEN ParseEachData("RaceModel", r)
    ELSE Return(JList(<<>>))

create_race(r) ==
    ParseData("RaceModel", r)

show_race(r) ==
    ParseData("RaceModel", r)

update_race(r) ==
    ParseData("RaceModel", r)

delete_race(r) ==
    Return(Null)

change_state_race(r) ==
    ParseData("RaceModel", r)

find_rounds(r) ==
    IF Falsy(r) THEN Return(JList(<<>>))
    ELSE IF HasData(r).kind = "raise" THEN HasData(r)
    ELSE IF ~HasData(r).value THEN Return(JList(<<>>))
    ELSE IF GetData(r).kind = "raise" THEN GetData(r)
    ELSE IF GetData(r).value.kind = "list" THEN ParseEachData("RoundModel", r)
    ELSE Return(JList(<<>>))

show_round(r) ==
    ParseData("RoundModel", r)

update_round(r) ==
    ParseData("RoundModel", r)

find_elapsed_times(r) ==
    IF Falsy(r) THEN Return(JList(<<>>))
    ELSE IF HasData(r).kind = "raise" THEN HasData(r)
    ELSE IF ~HasData(r).value THEN Return(JList(<<>>))
    ELSE IF GetData(r).kind = "raise" THEN GetData(r)
    ELSE IF GetData(r).value.kind = "list" THEN ParseEachData("ElapsedTimeModel", r)
    ELSE Return(JList(<<>>))

show_elapsed_time(r) ==
    ParseData("ElapsedTimeModel", r)

update_elapsed_time(r) ==
    ParseData("ElapsedTimeModel", r)

bulk_update_elapsed_times(r) ==
    IF Falsy(r) THEN Return(JList(<<>>))
    ELSE IF HasData(r).kind = "raise" THEN HasData(r)
    ELSE IF ~HasData(r).value THEN Return(JList(<<>>))
    ELSE ParseEachData("ElapsedTimeModel", r)

find_communities(r) ==
    IF Falsy(r) THEN Return(JList(<<>>))
    ELSE IF HasData(r).kind = "raise" THEN HasData(r)
    ELSE IF ~HasData(r).value THEN Return(JList(<<>>))
    ELSE ParseEachData("CommunityModel", r)

find_community_tournaments(r) ==
    IF Falsy(r) THEN Return(JList(<<>>)) ELSE ParseEachData("TournamentModel", r)

create_community_tournament(r) ==
    ParseData("TournamentModel", r)

show_community_tournament(r) ==
    ParseData("TournamentModel", r)

update_community_tournament(r) ==
    ParseData("TournamentModel", r)

delete_community_tournament(r) ==
    Return(Null)

change_state_community_tournament(r) ==
    ParseData("TournamentModel", r)

find_community_matches(r) ==
    IF Falsy(r) THEN Return(JList(<<>>)) ELSE ParseEachData("MatchModel", r)

show_community_match(r) ==
    ParseObj("MatchModel", r)

update_community_match(r) ==
    ParseObj("MatchModel", r)

change_stage_community_tournament(r) ==
    ParseObj("MatchModel", r)

find_community_participants(r) ==
    IF Falsy(r) THEN Return(JList(<<>>)) ELSE ParseEachData("ParticipantModel", r)

\* create_community_participant indexing the array without testing it.
create_community_participant_unguarded(r) ==
    IF r.kind = "dict" /\ r.data # Absent THEN ParseObj("ParticipantModel", r.data)
    ELSE IF r.kind = "list" THEN
        (IF GetFirst(r).kind = "raise" THEN GetFirst(r)
         ELSE ParseObj("ParticipantModel", GetFirst(r).value))
    ELSE Raise("ValueError")

create_community_participant(r) ==
    IF r.kind = "dict" /\ r.data # Absent THEN ParseObj("ParticipantModel", r.data)
    ELSE IF r.kind = "list" /\ r.items # <<>> THEN ParseObj("ParticipantModel", r.items[1])
    ELSE Raise("ValueError")

show_community_participant(r) ==
    ParseObj("ParticipantModel", r)

update_community_participant(r) ==
    ParseObj("ParticipantModel", r)

delete_community_participant(r) ==
    Return(Null)

bulk_community_create_participant(r) ==
    IF Falsy(r) THEN Return(JList(<<>>)) ELSE ParseEachData("ParticipantModel", r)

clear_all_community_participants(r) ==
    Return(Null)

randomize_community_participants(r) ==
    IF Falsy(r) THEN Return(JList(<<>>)) ELSE ParseEachData("ParticipantModel", r)

find_community_match_attachments(r) ==
    IF Falsy(r) THEN Return(JList(<<>>)) ELSE ParseEachData("MatchAttachmentModel", r)

create_community_match_attachment(r) ==
    ParseObj("MatchAttachmentModel", r)

delete_community_match_attachment(r) ==
    Return(Null)

\* get_me trying the bare object before the envelope.
get_me_bare_first(r) ==
    IF ParseObj("UserModel", r).kind = "return" THEN ParseObj("UserModel", r)
    ELSE IF HasData(r).kind = "raise" THEN HasData(r)
    ELSE IF HasData(r).value THEN ParseData("UserModel", r)
    ELSE ParseObj("UserModel", r)

get_me(r) ==
    IF HasData(r).kind = "raise" THEN HasData(r)
    ELSE IF HasData(r).value THEN ParseData("UserModel", r)
    ELSE ParseObj("UserModel", r)

Ops ==
    {"find_tournaments",
     "create_tournament",
     "show_tournament",
     "update_tournament",
     "delete_tournament",
     "change_state_tournament",
     "find_matches",
     "show_match",
     "update_match",
     "change_state_match",
     "find_participants",
     "create_participant",
     "show_participant",
     "update_participant",
     "delete_participant",
     "bulk_create_participants",
     "clear_all_participants",
     "randomize_participants",
     "find_match_attachments",
     "create_match_attachment",
     "delete_match_attachment",
     "find_races",
     "create_race",
     "show_race",
     "update_race",
     "delete_race",
     "change_state_race",
     "find_rounds",
     "show_round",
     "update_round",
     "find_elapsed_times",
     "show_elapsed_time",
     "update_elapsed_time",
     "bulk_update_elapsed_times",
     "find_communities",
     "find_community_tournaments",
     "create_community_tournament",
     "show_community_tournament",
     "update_community_tournament",
     "delete_community_tournament",
     "change_state_community_tournament",
     "find_community_matches",
     "show_community_match",
     "update_community_match",
     "change_stage_community_tournament",
     "find_community_participants",
     "create_community_participant",
     "show_community_participant",
     "update_community_participant",
     "delete_community_participant",
     "bulk_community_create_participant",
     "clear_all_community_participants",
     "randomize_community_participants",
     "find_community_match_attachments",
     "create_community_match_attachment",
     "delete_community_match_attachment",
     "get_me"}

Method(o) ==
    CASE o = "find_tournaments" -> "GET"
      [] o = "create_tournament" -> "POST"
      [] o = "show_tournament" -> "GET"
      [] o = "update_tournament" -> "PUT"
      [] o = "delete_tournament" -> "DELETE"
      [] o = "change_state_tournament" -> "PUT"
      [] o = "find_matches" -> "GET"
      [] o = "show_match" -> "GET"
      [] o = "update_match" -> "PUT"
      [] o = "change_state_match" -> "PUT"
      [] o = "find_participants" -> "GET"
      [] o = "create_participant" -> "POST"
      [] o = "show_participant" -> "GET"
      [] o = "update_participant" -> "PUT"
      [] o = "delete_participant" -> "DELETE"
      [] o = "bulk_create_participants" -> "POST"
      [] o = "clear_all_participants" -> "DELETE"
      [] o = "randomize_participants" -> "PUT"
      [] o = "find_match_attachments" -> "GET"
      [] o = "create_match_attachment" -> "POST"
      [] o = "delete_match_attachment" -> "DELETE"
      [] o = "find_races" -> "GET"
      [] o = "create_race" -> "POST"
      [] o = "show_race" -> "GET"
      [] o = "update_race" -> "PUT"
      [] o = "delete_race" -> "DELETE"
      [] o = "change_state_race" -> "PUT"
      [] o = "find_rounds" -> "GET"
      [] o = "show_round" -> "GET"
      [] o = "update_round" -> "PUT"
      [] o = "find_elapsed_times" -> "GET"
      [] o = "show_elapsed_time" -> "GET"
      [] o = "update_elapsed_time" -> "PUT"
      [] o = "bulk_update_elapsed_times" -> "POST"
      [] o = "find_communities" -> "GET"
      [] o = "find_community_tournaments" -> "GET"
      [] o = "create_community_tournament" -> "POST"
      [] o = "show_community_tournament" -> "GET"
      [] o = "update_community_tournament" -> "PUT"
      [] o = "delete_community_tournament" -> "DELETE"
      [] o = "change_state_community_tournament" -> "PUT"
      [] o = "find_community_matches" -> "GET"
      [] o = "show_community_match" -> "GET"
      [] o = "update_community_match" -> "PUT"
      [] o = "change_stage_community_tournament" -> "PUT"
      [] o = "find_community_participants" -> "GET"
      [] o = "create_community_participant" -> "POST"
      [] o = "show_community_participant" -> "GET"
      [] o = "update_community_participant" -> "PUT"
      [] o = "delete_community_participant" -> "DELETE"
      [] o = "bulk_community_create_participant" -> "POST"
      [] o = "clear_all_community_participants" -> "DELETE"
      [] o = "randomize_community_participants" -> "PUT"
      [] o = "find_community_match_attachments" -> "GET"
      [] o = "create_community_match_attachment" -> "POST"
      [] o = "delete_community_match_attachment" -> "DELETE"
      [] o = "get_me" -> "GET"

Endpoint(o, a) ==
    CASE o = "find_tournaments" ->
           "/tournaments.json"
      [] o = "create_tournament" ->
           "/tournaments.json"
      [] o = "show_tournament" ->
           "/tournaments/" \o a.tournament_id \o ".json"
      [] o = "update_tournament" ->
           "/tournaments/" \o a.tournament_id \o ".json"
      [] o = "delete_tournament" ->
           "/tournaments/" \o a.tournament_id \o ".json"
      [] o = "change_state_tournament" ->
           "/tournaments/" \o a.tournament_id \o "/change_state.json"
      [] o = "find_matches" ->
           "/tournaments/" \o a.tournament_id \o "/matches.json"
      [] o = "show_match" ->
           "/tournaments/" \o a.tournament_id \o "/matches/" \o a.match_id \o ".json"
      [] o = "update_match" ->
           "/tournaments/" \o a.tournament_id \o "/matches/" \o a.match_id \o ".json"
      [] o = "change_state_match" ->
           "/tournaments/" \o a.tournament_id \o "/matches/" \o a.match_id \o "/change_state.json"
      [] o = "find_participants" ->
           "/tournaments/" \o a.tournament_id \o "/participants.json"
      [] o = "create_participant" ->
           "/tournaments/" \o a.tournament_id \o "/participants.json"
      [] o = "show_participant" ->
           "/tournaments/" \o a.tournament_id \o "/participants/" \o a.participant_id \o ".json"
      [] o = "update_participant" ->
           "/tournaments/" \o a.tournament_id \o "/participants/" \o a.participant_id \o ".json"
      [] o = "delete_participant" ->
           "/tournaments/" \o a.tournament_id \o "/participants/" \o a.participant_id \o ".json"
      [] o = "bulk_create_participants" ->
           "/tournaments/" \o a.tournament_id \o "/participants/bulk_add.json"
      [] o = "clear_all_participants" ->
           "/tournaments/" \o a.tournament_id \o "/participants/clear.json"
      [] o = "randomize_participants" ->
           "/tournaments/" \o a.tournament_id \o "/participants/randomize.json"
      [] o = "find_match_attachments" ->
           "/tournaments/" \o a.tournament_id \o "/matches/" \o a.match_id \o "/attachments.json"
      [] o = "create_match_attachment" ->
           "/tournaments/" \o a.tournament_id \o "/matches/" \o a.match_id \o "/attachments.json"
      [] o = "delete_match_attachment" ->
           "/tournaments/" \o a.tournament_id \o "/matches/" \o a.match_id \o "/attachments/" \o a.attachment_id \o ".json"
      [] o = "find_races" ->
           "/races.json"
      [] o = "create_race" ->
           "/races.json"
      [] o = "show_race" ->
           "/races/" \o a.race_id \o ".json"
      [] o = "update_race" ->
           "/races/" \o a.race_id \o ".json"
      [] o = "delete_race" ->
           "/races/" \o a.race_id \o ".json"
      [] o = "change_state_race" ->
           "/races/" \o a.race_id \o "/change_state.json"
      [] o = "find_rounds" ->
           "/races/" \o a.race_id \o "/rounds.json"
      [] o = "show_round" ->
           "/races/" \o a.race_id \o "/rounds/" \o a.round_id \o ".json"
      [] o = "update_round" ->
           "/races/" \o a.race_id \o "/rounds/" \o a.round_id \o ".json"
      [] o = "find_elapsed_times" ->
           "/races/" \o a.race_id \o "/rounds/" \o a.round_id \o "/elapsed_times.json"
      [] o = "show_elapsed_time" ->
           "/races/" \o a.race_id \o "/rounds/" \o a.round_id \o "/elapsed_times/" \o a.elapsed_time_id \o ".json"
      [] o = "update_elapsed_time" ->
           "/races/" \o a.race_id \o "/rounds/" \o a.round_id \o "/elapsed_times/" \o a.elapsed_time_id \o ".json"
      [] o = "bulk_update_elapsed_times" ->
           "/races/" \o a.race_id \o "/rounds/" \o a.round_id \o "/elapsed_times/bulk_update.json"
      [] o = "find_communities" ->
           "/communities.json"
      [] o = "find_community_tournaments" ->
           "/communities/" \o a.community_identifier \o "/tournaments.json"
      [] o = "create_community_tournament" ->
           "/communities/" \o a.community_identifier \o "/tournaments.json"
      [] o = "show_community_tournament" ->
           "/communities/" \o a.community_identifier \o "/tournaments/" \o a.tournament_id \o ".json"
      [] o = "update_community_tournament" ->
           "/communities/" \o a.community_identifier \o "/tournaments/" \o a.tournament_id \o ".json"
      [] o = "delete_community_tournament" ->
           "/communities/" \o a.community_identifier \o "/tournaments/" \o a.tournament_id \o ".json"
      [] o = "change_state_community_tournament" ->
           "/communities/" \o a.community_identifier \o "/tournaments/" \o a.tournament_id \o "/change_state.json"
      [] o = "find_community_matches" ->
           "/communities/" \o a.community_identifier \o "/tournaments/" \o a.tournament_id \o "/matches.json"
      [] o = "show_community_match" ->
           "/communities/" \o a.community_identifier \o "/tournaments/" \o a.tournament_id \o "/matches/" \o a.match_id \o ".json"
      [] o = "update_community_match" ->
           "/communities/" \o a.community_identifier \o "/tournaments/" \o a.tournament_id \o "/matches/" \o a.match_id \o ".json"
      [] o = "change_stage_community_tournament" ->
           "/communities/" \o a.community_identifier \o "/tournaments/" \o a.tournament_id \o "/change_stage.json"
      [] o = "find_community_participants" ->
           "/communities/" \o a.community_identifier \o "/tournaments/" \o a.tournament_id \o "/participants.json"
      [] o = "create_community_participant" ->
           "/communities/" \o a.community_identifier \o "/tournaments/" \o a.tournament_id \o "/participants.json"
      [] o = "show_community_participant" ->
           "/communities/" \o a.community_identifier \o "/tournaments/" \o a.tournament_id \o "/participants/" \o a.participant_id \o ".json"
      [] o = "update_community_participant" ->
           "/communities/" \o a.community_identifier \o "/tournaments/" \o a.tournament_id \o "/participants/" \o a.participant_id \o ".json"
      [] o = "delete_community_participant" ->
           "/communities/" \o a.community_identifier \o "/tournaments/" \o a.tournament_id \o "/participants/" \o a.participant_id \o ".json"
      [] o = "bulk_community_create_participant" ->
           "/communities/" \o a.community_identifier \o "/tournaments/" \o a.tournament_id \o "/participants/bulk_add.json"
      [] o = "clear_all_community_participants" ->
           "/communities/" \o a.community_identifier \o "/tournaments/" \o a.tournament_id \o "/participants/clear.json"
      [] o = "randomize_community_participants" ->
           "/communities/" \o a.community_identifier \o "/tournaments/" \o a.tournament_id \o "/participants/randomize.json"
      [] o = "find_community_match_attachments" ->
           "/communities/" \o a.community_identifier \o "/tournaments/" \o a.tournament_id \o "/match_attachments.json"
      [] o = "create_community_match_attachment" ->
           "/communities/" \o a.community_identifier \o "/tournaments/" \o a.tournament_id \o "/match_attachments.json"
      [] o = "delete_community_match_attachment" ->
           "/communities/" \o a.community_identifier \o "/tournaments/" \o a.tournament_id \o "/match_attachments/" \o a.attachment_id \o ".json"
      [] o = "get_me" ->
           "/me.json"

Handle(o, r) ==
    CASE o = "find_tournaments" -> find_tournaments(r)
      [] o = "create_tournament" -> create_tournament(r)
      [] o = "show_tournament" -> show_tournament(r)
      [] o = "update_tournament" -> update_tournament(r)
      [] o = "delete_tournament" -> delete_tournament(r)
      [] o = "change_state_tournament" -> change_state_tournament(r)
      [] o = "find_matches" -> find_matches(r)
      [] o = "show_match" -> show_match(r)
      [] o = "update_match" -> update_match(r)
      [] o = "change_state_match" -> change_state_match(r)
      [] o = "find_participants" -> find_participants(r)
      [] o = "create_participant" -> create_participant(r)
      [] o = "show_participant" -> show_participant(r)
      [] o = "update_participant" -> update_participant(r)
      [] o = "delete_participant" -> delete_participant(r)
      [] o = "bulk_create_participants" -> bulk_create_participants(r)
      [] o = "clear_all_participants" -> clear_all_participants(r)
      [] o = "randomize_participants" -> randomize_participants(r)
      [] o = "find_match_attachments" -> find_match_attachments(r)
      [] o = "create_match_attachment" -> create_match_attachment(r)
      [] o = "delete_match_attachment" -> delete_match_attachment(r)
      [] o = "find_races" -> find_races(r)
      [] o = "create_race" -> create_race(r)
      [] o = "show_race" -> show_race(r)
      [] o = "update_race" -> update_race(r)
      [] o = "delete_race" -> delete_race(r)
      [] o = "change_state_race" -> change_state_race(r)
      [] o = "find_rounds" -> find_rounds(r)
      [] o = "show_round" -> show_round(r)
      [] o = "update_round" -> update_round(r)
      [] o = "find_elapsed_times" -> find_elapsed_times(r)
      [] o = "show_elapsed_time" -> show_elapsed_time(r)
      [] o = "update_elapsed_time" -> update_elapsed_time(r)
      [] o = "bulk_update_elapsed_times" -> bulk_update_elapsed_times(r)
      [] o = "find_communities" -> find_communities(r)
      [] o = "find_community_tournaments" -> find_community_tournaments(r)
      [] o = "create_community_tournament" -> create_community_tournament(r)
      [] o = "show_community_tournament" -> show_community_tournament(r)
      [] o = "update_community_tournament" -> update_community_tournament(r)
      [] o = "delete_community_tournament" -> delete_community_tournament(r)
      [] o = "change_state_community_tournament" -> change_state_community_tournament(r)
      [] o = "find_community_matches" -> find_community_matches(r)
      [] o = "show_community_match" -> show_community_match(r)
      [] o = "update_community_match" -> update_community_match(r)
      [] o = "change_stage_community_tournament" -> change_stage_community_tournament(r)
      [] o = "find_community_participants" -> find_community_participants(r)
      [] o = "create_community_participant" -> create_community_participant(r)
      [] o = "show_community_participant" -> show_community_participant(r)
      [] o = "update_community_participant" -> update_community_participant(r)
      [] o = "delete_community_participant" -> delete_community_participant(r)
      [] o = "bulk_community_create_participant" -> bulk_community_create_participant(r)
      [] o = "clear_all_community_participants" -> clear_all_community_participants(r)
      [] o = "randomize_community_participants" -> randomize_community_participants(r)
      [] o = "find_community_match_attachments" -> find_community_match_attachments(r)
      [] o = "create_community_match_attachment" -> create_community_match_attachment(r)
      [] o = "delete_community_match_attachment" -> delete_community_match_attachment(r)
      [] o = "get_me" -> get_me(r)

\* The path parameters of a call, passed through verbatim.
(* The model classes of models.py, field by field *)

JBool(b) == [kind |-> "bool", b |-> b]
JFloat(f) == [kind |-> "float", f |-> f]
\* An attribute mapping with no keys; dicts are records of the keys they hold.
NoKeys == [kind |-> "dict"]
\* d[key] = value on a Python dict.
SetItem(d, key, value) ==
    [k \in DOMAIN d \cup {key} |-> IF k = key THEN value ELSE d[k]]
\* d.get(key)
Get(d, key) == IF key \in DOMAIN d THEN d[key] ELSE Absent

\* str(n) of a Python int.
Digit(d) ==
    CASE d = 0 -> "0" [] d = 1 -> "1" [] d = 2 -> "2" [] d = 3 -> "3" [] d = 4 -> "4"
      [] d = 5 -> "5" [] d = 6 -> "6" [] d = 7 -> "7" [] d = 8 -> "8" [] d = 9 -> "9"
RECURSIVE str_grouped(_)
\* A str that groups thousands: format(n, ",").
str_grouped(n) ==
    IF n < 0 THEN "-" \o str_grouped(0 - n)
    ELSE IF n < 1000 THEN
        (IF n < 10 THEN Digit(n)
         ELSE IF n < 100 THEN Digit(n \div 10) \o Digit(n % 10)
         ELSE Digit(n \div 100) \o Digit((n \div 10) % 10) \o Digit(n % 10))
    ELSE str_grouped(n \div 1000) \o "," \o Digit((n \div 100) % 10)
         \o Digit((n \div 10) % 10) \o Digit(n % 10)
RECURSIVE str(_)
str(n) ==
    IF n < 0 THEN "-" \o str(0 - n)
    ELSE IF n < 10 THEN Digit(n)
    ELSE str(n \div 10) \o Digit(n % 10)

\* One annotated attribute of a class: its name, the key it is read from,
\* its type (a scalar kind or a class), whether it is required (no default,
\* not Optional), and its default.
Field(name, alias, type, required, default) ==
    [name |-> name, alias |-> alias, type |-> type, required |-> required,
     default |-> default]

\* The fields of each class, inherited ones first.
Fields(C) ==
    CASE C = "Timestamps" ->
            <<Field("created_at", "createdAt", "str", FALSE, Null),
              Field("updated_at", "updatedAt", "str", FALSE, Null),
              Field("starts_at", "startsAt", "str", FALSE, Null),
              Field("completed_at", "completedAt", "str", FALSE, Null)>>
      [] C = "MatchAttachmentOutput" ->
            <<Field("id", "id", "int", FALSE, Null),
              Field("url", "url", "str", FALSE, Null),
              Field("description", "description", "str", FALSE, Null),
              Field("timestamps", "timestamps", "Timestamps", FALSE, Null)>>
      [] C = "MatchAttachmentModel" ->
            <<Field("id", "id", "str", TRUE, Absent),
              Field("type", "type", "str", TRUE, Absent),
              Field("attributes", "attributes", "MatchAttachmentOutput", TRUE, Absent)>>
      [] C = "ParticipantOutput" ->
            <<Field("name", "name", "str", FALSE, Null),
              Field("seed", "seed", "int", FALSE, Null),
              Field("group_id", "group_id", "int", FALSE, Null),
              Field("username", "username", "str", FALSE, Null),
              Field("final_rank", "final_rank", "int", FALSE, Null),
              Field("states", "states", "dict", FALSE, Null),
              Field("misc", "misc", "str", FALSE, Null),
              Field("timestamps", "timestamps", "Timestamps", FALSE, Null)>>
      [] C = "ParticipantModel" ->
            <<Field("id", "id", "str", TRUE, Absent),
              Field("type", "type", "str", TRUE, Absent),
              Field("attributes", "attributes", "ParticipantOutput", TRUE, Absent)>>
      [] C = "Notifications" ->
            <<Field("upon_matches_open", "upon_matches_open", "bool", FALSE, JBool(FALSE)),
              Field("upon_tournament_ends", "upon_tournament_ends", "bool", FALSE, JBool(FALSE))>>
      [] C = "MatchOptions" ->
            <<Field("consolation_matches_target_rank", "consolation_matches_target_rank", "int", FALSE, JInt(3)),
              Field("accept_attachments", "accept_attachments", "bool", FALSE, JBool(FALSE))>>
      [] C = "RegistrationOptions" ->
            <<Field("open_signup", "open_signup", "bool", FALSE, JBool(FALSE)),
              Field("signup_cap", "signup_cap", "int", FALSE, Null),
              Field("check_in_duration", "check_in_duration", "int", FALSE, Null)>>
      [] C = "SeedingOptions" ->
            <<Field("hide_seeds", "hide_seeds", "bool", FALSE, JBool(FALSE)),
              Field("sequential_pairings", "sequential_pairings", "bool", FALSE, JBool(FALSE))>>
      [] C = "StationOptions" ->
            <<Field("auto_assign", "auto_assign", "bool", FALSE, JBool(FALSE)),
              Field("only_start_matches_with_assigned_stations",
                    "only_start_matches_with_assigned_stations", "bool", FALSE, JBool(FALSE))>>
      [] C = "GroupStageOptions" ->
            <<Field("stage_type", "stage_type", "str", FALSE, JStr("round robin")),
              Field("group_size", "group_size", "int", FALSE, JInt(4)),
              Field("participant_count_to_advance_per_group",
                    "participant_count_to_advance_per_group", "int", FALSE, JInt(2)),
              Field("rr_iterations", "rr_iterations", "int", FALSE, JInt(1)),
              Field("ranked_by", "ranked_by", "str", FALSE, JStr("")),
              Field("rr_pts_for_match_win", "rr_pts_for_match_win", "float", FALSE, JFloat("1.0")),
              Field("rr_pts_for_match_tie", "rr_pts_for_match_tie", "float", FALSE, JFloat("0.5")),
              Field("rr_pts_for_game_win", "rr_pts_for_game_win", "float", FALSE, JFloat("0.0")),
              Field("rr_pts_for_game_tie", "rr_pts_for_game_tie", "float", FALSE, JFloat("0.0")),
              Field("split_participants", "split_participants", "bool", FALSE, JBool(FALSE))>>
      [] C = "DoubleEliminationOptions" ->
            <<Field("split_participants", "split_participants", "bool", FALSE, JBool(FALSE)),
              Field("grand_finals_modifier", "grand_finals_modifier", "str", FALSE, JStr(""))>>
      [] C = "RoundRobinOptions" ->
            <<Field("iterations", "iterations", "int", FALSE, JInt(2)),
              Field("ranking", "ranking", "str", FALSE, JStr("")),
              Field("pts_for_game_win", "pts_for_game_win", "float", FALSE, JFloat("1.0")),
              Field("pts_for_game_tie", "pts_for_game_tie", "float", FALSE, JFloat("0.0")),
              Field("pts_for_match_win", "pts_for_match_win", "float", FALSE, JFloat("1.0")),
              Field("pts_for_match_tie", "pts_for_match_tie", "float", FALSE, JFloat("0.5"))>>
      [] C = "SwissOptions" ->
            <<Field("rounds", "rounds", "int", FALSE, JInt(2)),
              Field("pts_for_game_win", "pts_for_game_win", "float", FALSE, JFloat("1.0")),
              Field("pts_for_game_tie", "pts_for_game_tie", "float", FALSE, JFloat("0.0")),
              Field("pts_for_match_win", "pts_for_match_win", "float", FALSE, JFloat("1.0")),
              Field("pts_for_match_tie", "pts_for_match_tie", "float", FALSE, JFloat("0.5"))>>
      [] C = "FreeForAllOptions" ->
            <<Field("max_participants", "max_participants", "int", FALSE, JInt(4))>>
      [] C = "TournamentAttributes" ->
            <<Field("name", "name", "str", TRUE, Absent),
              Field("url", "url", "str", FALSE, Null),
              Field("tournament_type", "tournament_type", "str", TRUE, Absent),
              Field("game_name", "game_name", "str", FALSE, Null),
              Field("private", "private", "bool", FALSE, JBool(FALSE)),
              Field("starts_at", "starts_at", "str", FALSE, Null),
              Field("description", "description", "str", FALSE, Null),
              Field("notifications", "notifications", "Notifications", FALSE, Null),
              Field("match_options", "match_options", "MatchOptions", FALSE, Null),
              Field("registration_options", "registration_options", "RegistrationOptions", FALSE, Null),
              Field("seeding_options", "seeding_options", "SeedingOptions", FALSE, Null),
              Field("station_options", "station_options", "StationOptions", FALSE, Null),
              Field("group_stage_enabled", "group_stage_enabled", "bool", FALSE, JBool(FALSE)),
              Field("group_stage_options", "group_stage_options", "GroupStageOptions", FALSE, Null),
              Field("double_elimination_options", "double_elimination_options", "DoubleEliminationOptions", FALSE, Null),
              Field("round_robin_options", "round_robin_options", "RoundRobinOptions", FALSE, Null),
              Field("swiss_options", "swiss_options", "SwissOptions", FALSE, Null),
              Field("free_for_all_options", "free_for_all_options", "FreeForAllOptions", FALSE, Null),
              Field("timestamps", "timestamps", "Timestamps", FALSE, Null)>>
      [] C = "TournamentModel" ->
            <<Field("id", "id", "str", TRUE, Absent),
              Field("type", "type", "str", TRUE, Absent),
              Field("attributes", "attributes", "TournamentAttributes", TRUE, Absent)>>
      [] C = "RelationshipResourceIdentifier" ->
            <<Field("id", "id", "str", TRUE, Absent),
              Field("type", "type", "str", TRUE, Absent)>>
      [] C = "ParticipantRelationship" ->
            <<Field("data", "data", "RelationshipResourceIdentifier", FALSE, Null)>>
      [] C = "MatchRelationships" ->
            <<Field("player1", "player1", "ParticipantRelationship", FALSE, Null),
              Field("player2", "player2", "ParticipantRelationship", FALSE, Null)>>
      [] C = "MatchParticipantPoints" ->
            <<Field("participant_id", "participant_id", "int", FALSE, Null),
              Field("scores", "scores", "list", FALSE, Null)>>
      [] C = "MatchAttributes" ->
            <<Field("state", "state", "str", FALSE, Null),
              Field("round", "round", "int", FALSE, Null),
              Field("identifier", "identifier", "str", FALSE, Null),
              Field("suggested_play_order", "suggested_play_order", "int", FALSE, Null),
              Field("scores", "scores", "str", FALSE, Null),
              Field("score_in_sets", "score_in_sets", "list", FALSE, Null),
              Field("points_by_participant", "points_by_participant", "list", FALSE, Null),
              Field("timestamps", "timestamps", "Timestamps", FALSE, Null),
              Field("winner_id", "winner_id", "int", FALSE, Null)>>
      [] C = "MatchModel" ->
            <<Field("id", "id", "str", TRUE, Absent),
              Field("type", "type", "str", TRUE, Absent),
              Field("attributes", "attributes", "MatchAttributes", TRUE, Absent),
              Field("relationships", "relationships", "MatchRelationships", FALSE, Null)>>
      [] C = "User" ->
            <<Field("email", "email", "str", FALSE, Null),
              Field("username", "username", "str", FALSE, Null),
              Field("image_url", "image_url", "str", FALSE, Null)>>
      [] C = "UserModel" ->
            <<Field("id", "id", "str", TRUE, Absent),
              Field("type", "type", "str", TRUE, Absent),
              Field("attributes", "attributes", "User", TRUE, Absent)>>
      [] C = "Community" ->
            <<Field("permalink", "permalink", "str", FALSE, Null),
              Field("subdomain", "subdomain", "str", FALSE, Null),
              Field("identifier", "identifier", "str", FALSE, Null),
              Field("name", "name", "str", FALSE, Null),
              Field("description", "description", "str", FALSE, Null),
              Field("timestamps", "timestamps", "Timestamps", FALSE, Null)>>
      [] C = "CommunityModel" ->
            <<Field("id", "id", "str", TRUE, Absent),
              Field("type", "type", "str", TRUE, Absent),
              Field("attributes", "attributes", "Community", TRUE, Absent)>>
      [] C = "RaceNotifications" ->
            <<Field("uponMatchesOpen", "uponMatchesOpen", "bool", FALSE, JBool(FALSE)),
              Field("uponTournamentEnds", "uponTournamentEnds", "bool", FALSE, JBool(FALSE))>>
      [] C = "RaceRegistrationOptions" ->
            <<Field("openSignup", "openSignup", "bool", FALSE, JBool(FALSE)),
              Field("signupCap", "signupCap", "int", FALSE, Null)>>
      [] C = "GrandPrixOptions" ->
            <<Field("rounds", "rounds", "int", FALSE, JInt(4))>>
      [] C = "RaceAttributes" ->
            <<Field("name", "name", "str", FALSE, Null),
              Field("url", "url", "str", FALSE, Null),
              Field("raceType", "raceType", "str", FALSE, Null),
              Field("description", "description", "str", FALSE, Null),
              Field("private", "private", "bool", FALSE, Null),
              Field("currentLap", "currentLap", "dict", FALSE, Null),
              Field("notifications", "notifications", "RaceNotifications", FALSE, Null),
              Field("registrationOptions", "registrationOptions", "RaceRegistrationOptions", FALSE, Null),
              Field("grandPrixOptions", "grandPrixOptions", "GrandPrixOptions", FALSE, Null),
              Field("timestamps", "timestamps", "Timestamps", FALSE, Null)>>
      [] C = "RaceModel" ->
            <<Field("id", "id", "str", TRUE, Absent),
              Field("type", "type", "str", TRUE, Absent),
              Field("attributes", "attributes", "RaceAttributes", TRUE, Absent)>>
      [] C = "RoundAttributes" ->
            <<Field("round", "round", "int", FALSE, Null),
              Field("state", "state", "str", FALSE, Null),
              Field("timestamps", "timestamps", "Timestamps", FALSE, Null)>>
      [] C = "RoundModel" ->
            <<Field("id", "id", "str", TRUE, Absent),
              Field("type", "type", "str", TRUE, Absent),
              Field("attributes", "attributes", "RoundAttributes", TRUE, Absent)>>
      [] C = "ElapsedTimeAttributes" ->
            <<Field("elapsedTime", "elapsedTime", "int", FALSE, Null),
              Field("points", "points", "float", FALSE, Null),
              Field("rank", "rank", "int", FALSE, Null),
              Field("formattedTime", "formattedTime", "str", FALSE, Null),
              Field("timestamps", "timestamps", "Timestamps", FALSE, Null)>>
      [] C = "ElapsedTimeModel" ->
            <<Field("id", "id", "str", TRUE, Absent),
              Field("type", "type", "str", TRUE, Absent),
              Field("attributes", "attributes", "ElapsedTimeAttributes", TRUE, Absent)>>

ResourceModels ==
    {"MatchAttachmentModel", "ParticipantModel", "TournamentModel", "MatchModel",
     "UserModel", "CommunityModel", "RaceModel", "RoundModel", "ElapsedTimeModel"}
Scalars == {"str", "int", "float", "bool", "dict", "list"}
FieldNames(C) == {Fields(C)[i].name : i \in DOMAIN Fields(C)}
FieldOf(C, name) ==
    LET fs == Fields(C) IN fs[CHOOSE i \in DOMAIN fs : fs[i].name = name]
\* The class of a resource model's attributes.
AttributesOf(M) == FieldOf(M, "attributes").type

\* The pydantic releases that provide parse_obj; which one is installed is
\* not pinned anywhere in the repository.
Versions == {"v1", "v2"}

\* A model configuration that rejects keys no field reads.
ConfigForbid == [extra |-> "forbid", populate_by_name |-> FALSE]
\* No class declares a Config: pydantic's defaults apply.
Config == [extra |-> "ignore", populate_by_name |-> FALSE]

Invalid == [kind |-> "invalid"]
\* Validation of a present, non-null value against a scalar annotation.
\* pydantic 1 turns a number or a bool given for a str into its str();
\* pydantic 2 rejects it.  Both take an int for a float.
Coerce(ver, type, x) ==
    CASE type = "str" ->
            IF x.kind = "str" THEN x
            ELSE IF ver = "v1" /\ x.kind = "int" THEN JStr(str(x.n))
            ELSE IF ver = "v1" /\ x.kind = "float" THEN JStr(x.f)
            ELSE IF ver = "v1" /\ x.kind = "bool" THEN JStr(IF x.b THEN "True" ELSE "False")
            ELSE Invalid
      [] type = "float" ->
            IF x.kind = "float" THEN x
            ELSE IF x.kind = "int" THEN JFloat(str(x.n) \o ".0")
            ELSE Invalid
      [] OTHER -> IF x.kind = type THEN x ELSE Invalid

\* The record of class C built from named values.
Object(C, values) == [kind |-> "object", cls |-> C, fields |-> values]

\* C(): an instance of class C with every field at its default.
Instance(C) ==
    Object(C, [n \in FieldNames(C) |-> FieldOf(C, n).default])

\* A missing key that fails the parse whatever the field declares.
MissingFails(f) == Invalid
\* A missing key that gives a class-typed field an instance of its class
\* (default_factory) instead of the declared None.
MissingMakesInstance(f) ==
    IF f.required THEN Invalid
    ELSE IF f.type \in Scalars THEN f.default
    ELSE Instance(f.type)
\* The value of a field whose key is missing: the declared default, and a
\* failure for a required field.
Missing(f) == IF f.required THEN Invalid ELSE f.default

\* C.parse_obj(v): every field is read from the key of its alias.  A missing
\* key gives the default, or fails a required field; null fails a required
\* field; a nested class is parsed in turn; keys that are no field's alias
\* are ignored.  One invalid field fails the whole parse.
RECURSIVE parse_obj(_, _, _)
parse_obj(ver, C, v) ==
    IF v.kind # "dict" THEN Raise("ValidationError")
    ELSE LET fs == Fields(C)
             read(f) == IF f.alias \in DOMAIN v THEN v[f.alias]
                        ELSE IF Config.populate_by_name THEN Get(v, f.name)
                        ELSE Absent
             value(f) ==
                 LET x == read(f)
                 IN  IF x = Absent THEN Missing(f)
                     ELSE IF x = Null THEN (IF f.required THEN Invalid ELSE Null)
                     ELSE IF f.type \in Scalars THEN Coerce(ver, f.type, x)
                     ELSE LET sub == parse_obj(ver, f.type, x)
                          IN  IF sub.kind = "return" THEN sub.value ELSE Invalid
             values == [i \in DOMAIN fs |-> value(fs[i])]
             extra == {k \in DOMAIN v \ {"kind"} :
                          \A i \in DOMAIN fs :
                              /\ fs[i].alias # k
                              /\ ~(Config.populate_by_name /\ fs[i].name = k)}
         IN  IF \/ \E i \in DOMAIN fs : values[i] = Invalid
                \/ Config.extra = "forbid" /\ extra # {}
             THEN Raise("ValidationError")
             ELSE Return(Object(C, [n \in {fs[i].name : i \in DOMAIN fs} |->
                                       values[CHOOSE i \in DOMAIN fs : fs[i].name = n]]))

\* x.dict(by_alias=...): the record as a dict keyed by field name, or by
\* alias when asked; nested records are dumped in turn and None is kept.
RECURSIVE dict(_, _)
dict(x, by_alias) ==
    LET fs == Fields(x.cls)
        key(f) == IF by_alias THEN f.alias ELSE f.name
        item(f) == IF x.fields[f.name].kind = "object"
                   THEN dict(x.fields[f.name], by_alias)
                   ELSE x.fields[f.name]
    IN  [k \in {key(fs[i]) : i \in DOMAIN fs} \cup {"kind"} |->
            IF k = "kind" THEN "dict"
            ELSE item(fs[CHOOSE i \in DOMAIN fs : key(fs[i]) = k])]

-----------------------------------------------------------------------------
(* What the caller passes, and the request an endpoint method builds from it *)

MaxParticipants == 2   \* longest short participant list a caller passes
BatchSize == 20        \* "up to 20 at a time" in bulk_create_participants' docstring

\* Attribute mappings a caller passes.
Mappings ==
    {NoKeys,
     [kind |-> "dict", name |-> JStr("Cup"), tournament_type |-> JStr("swiss")],
     [kind |-> "dict", state |-> JStr("start"), url |-> JStr("u")],
     [kind |-> "dict", match_id |-> JStr("m9"), description |-> JStr("d")]}

\* The participant lists a caller passes: every short list, and one list
\* longer than the documented batch.
ParticipantLists ==
    LET Participant1 == [kind |-> "dict", name |-> JStr("Ann")]
        Participant2 == [kind |-> "dict", name |-> JStr("Bob"), seed |-> JInt(2)]
        LongList == [i \in 1..(BatchSize + 1) |->
                        IF i % 2 = 1 THEN Participant1 ELSE Participant2]
    IN  {JList(l) : l \in SeqsUpTo({Participant1, Participant2}, MaxParticipants)
                          \cup {LongList}}

\* The arguments of a call that passes nothing but the path parameters.  A
\* page or per_page of Absent is one the caller left to the signature's
\* default; by_participant_id is the participant_id filter of find_matches
\* (participant_id names a path parameter elsewhere).
DefaultArgs ==
    [community_identifier |-> "c1", tournament_id |-> "t1", match_id |-> "m1",
     participant_id |-> "p1", attachment_id |-> "a1", race_id |-> "r1",
     round_id |-> "n1", elapsed_time_id |-> "e1",
     page |-> Absent, per_page |-> Absent,
     state |-> Null, tournament_type |-> Null, created_after |-> Null,
     created_before |-> Null, by_participant_id |-> Null,
     new_state |-> JStr("start"), attributes |-> NoKeys, participants |-> JList(<<>>)]
PathArgs == {DefaultArgs}

PaginatedOps ==
    {"find_tournaments", "find_matches", "find_participants", "find_match_attachments",
     "find_races", "find_rounds", "find_elapsed_times", "find_community_tournaments",
     "find_community_matches", "find_community_participants",
     "find_community_match_attachments"}
TournamentFilterOps == {"find_tournaments", "find_community_tournaments"}
MatchFilterOps == {"find_matches", "find_community_matches"}
NewStateOps ==
    {"change_state_tournament", "change_state_match", "change_state_race",
     "change_state_community_tournament"}
ParticipantListOps == {"bulk_create_participants", "bulk_community_create_participant"}

\* The json type literal of each method that wraps an attribute mapping.
PayloadType(o) ==
    CASE o \in {"create_tournament", "update_tournament", "create_community_tournament",
                "update_community_tournament"} -> "Tournaments"
      [] o \in {"change_state_tournament", "change_state_community_tournament"} ->
            "TournamentState"
      [] o \in {"update_match", "update_community_match"} -> "Match"
      [] o \in {"change_state_match", "change_stage_community_tournament"} -> "MatchState"
      [] o \in {"create_participant", "update_participant", "bulk_create_participants",
                "create_community_participant", "update_community_participant",
                "bulk_community_create_participant"} -> "Participants"
      [] o \in {"create_match_attachment", "create_community_match_attachment"} ->
            "match_attachment"
      [] o \in {"create_race", "update_race"} -> "Race"
      [] o = "change_state_race" -> "RaceState"
      [] o = "update_round" -> "RoundStateInput"
      [] o = "update_elapsed_time" -> "ElaspedTime"
      [] OTHER -> "none"
MappingOps == {o \in Ops : PayloadType(o) # "none"} \ (NewStateOps \cup ParticipantListOps)
UnwrappedOps == {"bulk_update_elapsed_times"}

\* The calls the caller can make of method o: only the arguments o takes vary.
ArgsFor(o) ==
    LET Pages == {Absent, JInt(3), JInt(1000)}
        PerPages == {Absent, JInt(100)}
        Filters == {Null, JStr(""), JStr("open")}
        StateTokens == {JStr("start"), JStr("bogus"), JStr("")}
    IN
    {[DefaultArgs EXCEPT !.page = p, !.per_page = pp] :
        p \in IF o \in PaginatedOps THEN Pages ELSE {Absent},
        pp \in IF o \in PaginatedOps THEN PerPages ELSE {Absent}}
    \cup {[DefaultArgs EXCEPT !.state = f1, !.tournament_type = f2,
                              !.created_after = f3, !.created_before = f4] :
        f1 \in IF o \in TournamentFilterOps \cup MatchFilterOps THEN Filters ELSE {Null},
        f2 \in IF o \in TournamentFilterOps THEN Filters ELSE {Null},
        f3 \in IF o \in TournamentFilterOps THEN Filters ELSE {Null},
        f4 \in IF o \in TournamentFilterOps THEN Filters ELSE {Null}}
    \cup {[DefaultArgs EXCEPT !.by_participant_id = f, !.state = f1] :
        f \in IF o \in MatchFilterOps THEN Filters ELSE {Null},
        f1 \in IF o \in MatchFilterOps THEN Filters ELSE {Null}}
    \cup {[DefaultArgs EXCEPT !.new_state = t] :
        t \in IF o \in NewStateOps THEN StateTokens ELSE {JStr("start")}}
    \cup {[DefaultArgs EXCEPT !.attributes = m] :
        m \in IF o \in MappingOps \cup UnwrappedOps THEN Mappings ELSE {NoKeys}}
    \cup {[DefaultArgs EXCEPT !.participants = l] :
        l \in IF o \in ParticipantListOps THEN ParticipantLists ELSE {JList(<<>>)}}

\* A filter test that looks at None only: `if state is not None`.
IfNotNone(x) == IF x.kind = "str" THEN x ELSE Absent
\* `if state: params["state"] = state`: None and "" both leave the key out.
IfSet(x) == IF x.kind = "str" /\ x.s # "" THEN x ELSE Absent

NoParams == [kind |-> "none"]
\* params = {"page": str(page), "per_page": str(per_page)}, with page=1 and
\* per_page=25 where the caller passes none.
PageParams(a) ==
    LET page == IF a.page = Absent THEN 1 ELSE a.page.n
        per_page == IF a.per_page = Absent THEN 25 ELSE a.per_page.n
    IN  [kind |-> "params", page |-> JStr(str(page)), per_page |-> JStr(str(per_page)),
         state |-> Absent, type |-> Absent, participant_id |-> Absent,
         created_after |-> Absent, created_before |-> Absent, match_id |-> Absent]

\* The params argument each method passes to _request.
Params(o, a) ==
    CASE o \in TournamentFilterOps ->
            [PageParams(a) EXCEPT !.state = IfSet(a.state),
                                  !.type = IfSet(a.tournament_type),
                                  !.created_after = IfSet(a.created_after),
                                  !.created_before = IfSet(a.created_before)]
      [] o \in MatchFilterOps ->
            [PageParams(a) EXCEPT !.state = IfSet(a.state),
                                  !.participant_id = IfSet(a.by_participant_id)]
      [] o = "find_community_match_attachments" ->
            [PageParams(a) EXCEPT !.match_id = JStr(a.match_id)]
      [] o \in PaginatedOps \ (TournamentFilterOps \cup MatchFilterOps
                               \cup {"find_community_match_attachments"}) -> PageParams(a)
      [] OTHER -> NoParams

\* payload = {"data": {"type": ..., "attributes": ...}}
Wrap(type, attributes) ==
    [kind |-> "dict",
     data |-> [kind |-> "dict", type |-> JStr(type), attributes |-> attributes]]
\* The participants list cut to the documented batch.
FirstBatch(l) ==
    JList(IF Len(l.items) > BatchSize THEN SubSeq(l.items, 1, BatchSize) ELSE l.items)
\* The list as bulk_create_participants puts it in the payload: all of it.
WholeList(l) == l

\* A state token checked against the states the API documents.
KnownStateOnly(token) ==
    [kind |-> "dict",
     state |-> IF token.s \in {"start", "finalize", "reset"} THEN token ELSE Null]
\* {"state": new_state}: the token as the caller gave it.
StateAttributes(token) == [kind |-> "dict", state |-> token]

NoBody == [kind |-> "none"]
\* The json_data argument each method passes to _request.
Payload(o, a) ==
    CASE o \in NewStateOps ->
            Wrap(PayloadType(o), StateAttributes(a.new_state))
      [] o \in ParticipantListOps ->
            Wrap(PayloadType(o), [kind |-> "dict", participants |-> WholeList(a.participants)])
      [] o = "create_community_match_attachment" ->
            Wrap(PayloadType(o), SetItem(a.attributes, "match_id", JStr(a.match_id)))
      [] o \in MappingOps \ {"create_community_match_attachment"} ->
            Wrap(PayloadType(o), a.attributes)
      [] o \in UnwrappedOps -> a.attributes
      [] OTHER -> NoBody

\* The caller's mapping and list once the method has built its payload.
\* The payload holds the caller's mapping itself, not a copy, so the
\* match_id that create_community_match_attachment stores in the payload
\* is stored in the caller's mapping.
AfterBuild(o, a) ==
    [kind |-> "frame",
     attributes |-> IF o = "create_community_match_attachment"
                    THEN SetItem(a.attributes, "match_id", JStr(a.match_id))
                    ELSE a.attributes,
     participants |-> a.participants]

NoRequest == [kind |-> "none"]
\* What _request hands to session.request, with the session's headers.
Request(c, o, a) ==
    [kind |-> "request", method |-> Method(o), url |-> c.base_url \o Endpoint(o, a),
     headers |-> c.headers, params |-> Params(o, a), json |-> Payload(o, a)]

\* A request that leaves its own Accept header on the session.
SessionKeepsRequestHeaders(c) ==
    [c EXCEPT !.headers.accept = JStr("application/vnd.api+json")]

\* The client object once session.request has run: the session is used,
\* never updated.
SessionAfterRequest(c) == c

\* A _request that asks again after a server error or a transport failure.
RetryOnFailure(r) ==
    IF r.kind = "failure" \/ r.status_code >= 500 THEN "calling" ELSE "returned"

\* Where a call stands once _request has looked at the answer: it returns
\* or raises, and never asks again.
AfterAnswer(r) == "returned"

-----------------------------------------------------------------------------
(* The state machine *)

NoFrame == [kind |-> "none"]
Pending == [kind |-> "pending"]

\* No concurrent call and no bot: the client is used by one caller.
NoLayers ==
    /\ threads = NoFrame
    /\ current_tournament_id = ""
    /\ tasks = NoFrame
    /\ running = "none"

Init ==
    /\ client = NoClient
    /\ ctor = NoFrame
    /\ pc = "new"
    /\ op = "none"
    /\ wire = NoRequest
    /\ response = NoResponse
    /\ resp = Pending
    /\ outcome = Pending
    /\ decoded = FALSE
    /\ nreq = 0
    /\ calls = 0
    /\ sent = 0
    /\ arg = NoFrame
    /\ parse = NoFrame
    /\ dump = NoFrame
    /\ caller = NoFrame
    /\ NoLayers

\* Challonge(api_key, oauth_token, authorization_type, base_url)
Construct(c) ==
    /\ pc = "new"
    /\ ctor' = [kind |-> "frame", args |-> c, exc |-> __init__(c).exc]
    /\ client' = __init__(c).self
    /\ pc' = IF __init__(c).exc = Null THEN "constructed" ELSE "new"
    /\ UNCHANGED <<op, wire, response, resp, outcome, decoded, nreq, calls, sent>>
    /\ UNCHANGED <<arg, parse, dump, caller, layers>>

\* The caller invokes endpoint method o; the method builds its request.
Invoke(o, a) ==
    /\ pc \in {"constructed", "idle"}
    /\ calls < MaxCalls
    /\ op' = o
    /\ wire' = Request(client, o, a)
    /\ pc' = "calling"
    /\ calls' = calls + 1
    /\ ctor' = NoFrame
    /\ arg' = a
    /\ caller' = AfterBuild(o, a)
    /\ UNCHANGED <<client, response, resp, outcome, decoded, nreq, sent, parse, dump>>
    /\ UNCHANGED layers

\* self.session.request(...)
Send ==
    /\ pc = "calling"
    /\ nreq' = nreq + 1
    /\ sent' = sent + 1
    /\ client' = SessionAfterRequest(client)
    /\ pc' = "waiting"
    /\ UNCHANGED <<ctor, op, wire, response, resp, outcome, decoded, calls, arg, parse, dump>>
    /\ UNCHANGED <<caller, layers>>

\* The network answers, or fails to.
Answer(r) ==
    /\ pc = "waiting"
    /\ response' = r
    /\ pc' = "received"
    /\ UNCHANGED <<client, ctor, op, wire, resp, outcome, decoded, nreq, calls, sent>>
    /\ UNCHANGED <<arg, parse, dump, caller, layers>>

\* The rest of _request and of the endpoint method.
Finish ==
    /\ pc = "received"
    /\ resp' = _request(response).out
    /\ decoded' = _request(response).decoded
    /\ outcome' = IF _request(response).out.kind = "raise"
                  THEN _request(response).out
                  ELSE Handle(op, _request(response).out.value)
    /\ pc' = AfterAnswer(response)
    /\ UNCHANGED <<client, ctor, op, wire, response, nreq, calls, sent, arg, parse, dump>>
    /\ UNCHANGED <<caller, layers>>

\* The caller has the result or the exception; the call's frame is gone.
Resume ==
    /\ pc = "returned"
    /\ pc' = "idle"
    /\ wire' = NoRequest
    /\ response' = NoResponse
    /\ resp' = Pending
    /\ outcome' = Pending
    /\ decoded' = FALSE
    /\ nreq' = 0
    /\ arg' = NoFrame
    /\ caller' = NoFrame
    /\ UNCHANGED <<client, ctor, op, calls, sent, parse, dump>>
    /\ UNCHANGED layers

Next ==
    \/ \E c \in CtorArgs : Construct(c)
    \/ \E o \in Ops, a \in PathArgs : Invoke(o, a)
    \/ Send
    \/ \E r \in NetworkOutcomes : Answer(r)
    \/ Finish
    \/ Resume

Spec == Init /\ [][Next]_vars

(* Calls on a constructed client, with every argument a caller can pass *)

RequestInit ==
    /\ client \in {__init__(c).self : c \in CtorArgs} \ {NoClient}
    /\ ctor = NoFrame
    /\ pc = "constructed"
    /\ op = "none"
    /\ wire = NoRequest
    /\ response = NoResponse
    /\ resp = Pending
    /\ outcome = Pending
    /\ decoded = FALSE
    /\ nreq = 0
    /\ calls = 0
    /\ sent = 0
    /\ arg = NoFrame
    /\ parse = NoFrame
    /\ dump = NoFrame
    /\ caller = NoFrame
    /\ NoLayers

\* The answers are enough to finish a call: no content, an enveloped
\* resource and a bare one.
RequestNext ==
    \/ \E o \in Ops : \E a \in ArgsFor(o) : Invoke(o, a)
    \/ Send
    \/ \E r \in {HttpResponse(204, EmptyContent),
                  HttpResponse(200, JsonText(Envelope(Item1))),
                  HttpResponse(200, JsonText(Item1))} : Answer(r)
    \/ Finish
    \/ Resume

SpecRequest == RequestInit /\ [][RequestNext]_vars

-----------------------------------------------------------------------------
(* parse_obj on the resources a server can answer with, and dict() on the
   records it returns *)

MaxPresent == 2   \* optional attributes a sparse answer carries together

RECURSIVE Sample(_)
\* A valid wire value for field f; for a class, a dict with its first field.
Sample(f) ==
    CASE f.type = "str" -> JStr("s")
      [] f.type = "int" -> JInt(5)
      [] f.type = "float" -> JFloat("2.5")
      [] f.type = "bool" -> JBool(TRUE)
      [] f.type = "dict" -> NoKeys
      [] f.type = "list" -> JList(<<>>)
      [] OTHER -> LET g == Fields(f.type)[1]
                  IN  [k \in {g.alias, "kind"} |-> IF k = "kind" THEN "dict" ELSE Sample(g)]

\* The dict of class C that carries valid values for exactly the fields P.
DictOf(C, P) ==
    [k \in {FieldOf(C, n).alias : n \in P} \cup {"kind"} |->
        IF k = "kind" THEN "dict"
        ELSE Sample(Fields(C)[CHOOSE i \in DOMAIN Fields(C) : Fields(C)[i].alias = k])]

\* A resource object; an Absent member is a key the object does not have.
Res(id, type, attributes) ==
    LET all == [kind |-> "dict", id |-> id, type |-> type, attributes |-> attributes]
    IN  [k \in {k \in DOMAIN all : k = "kind" \/ all[k] # Absent} |-> all[k]]

\* The relationships a match answer carries.
Relationships ==
    LET ref == [kind |-> "dict", data |-> [kind |-> "dict", id |-> JStr("9"),
                                           type |-> JStr("participant")]]
    IN  {Null, NoKeys, [kind |-> "dict", player1 |-> Null, player2 |-> Null],
         [kind |-> "dict", player1 |-> [kind |-> "dict", data |-> Null]],
         [kind |-> "dict", player1 |-> NoKeys, player2 |-> ref],
         [kind |-> "dict", player1 |-> ref],
         [kind |-> "dict", player1 |-> ref, player2 |-> ref]}

\* The answers parsed as resource model M: every required attribute with
\* few or all of the optional ones, some required attribute missing, an id,
\* a type or an attribute of the wrong kind, keys no field reads, and for a
\* match its relationships.
Inputs(M) ==
    LET A == AttributesOf(M)
        Req == {n \in FieldNames(A) : FieldOf(A, n).required}
        Opt == FieldNames(A) \ Req
        Wrong == {Null, JInt(7), JList(<<>>)}
        Full == DictOf(A, FieldNames(A))
        Bare == DictOf(A, Req)
    IN  {Res(JStr("1"), JStr("t"), DictOf(A, (Req \ R) \cup Q)) :
            R \in SUBSET Req,
            Q \in {Q \in SUBSET Opt : Cardinality(Q) <= MaxPresent \/ Q = Opt}}
        \cup {Res(i, t, a) : i \in Wrong \cup {Absent, JStr("1")}, t \in {Absent, JStr("t")},
                             a \in {Full, Absent, Null}}
        \cup {Res(JStr("1"), JStr("t"), SetItem(Bare, FieldOf(A, n).alias, w)) :
                n \in Req, w \in Wrong}
        \cup {Res(JStr("1"), JStr("t"), SetItem(a, k, JStr("x"))) :
                a \in {Bare, Full}, k \in {"unknown", "created_at"}}
        \cup {SetItem(Res(JStr("1"), JStr("t"), a), "links", NoKeys) : a \in {Bare, Full}}
        \cup {SetItem(Res(JStr("1"), JStr("t"), a), "relationships", r) :
                a \in {Bare, Full},
                r \in IF M = "MatchModel" THEN Relationships ELSE {}}

ParseInit ==
    /\ client = NoClient
    /\ ctor = NoFrame
    /\ pc = "new"
    /\ op = "none"
    /\ wire = NoRequest
    /\ response = NoResponse
    /\ resp = Pending
    /\ outcome = Pending
    /\ decoded = FALSE
    /\ nreq = 0
    /\ calls = 0
    /\ sent = 0
    /\ arg = NoFrame
    /\ parse = NoFrame
    /\ dump = NoFrame
    /\ caller = NoFrame
    /\ NoLayers

\* M.parse_obj(v), as the endpoint methods call it on an answer.
Parse(ver, M, v) ==
    /\ parse = NoFrame
    /\ parse' = [kind |-> "frame", pydantic |-> ver, cls |-> M, raw |-> v,
                 out |-> parse_obj(ver, M, v)]
    /\ UNCHANGED <<client, ctor, pc, op, wire, response, resp, outcome, decoded, nreq,
                   calls, sent, arg, dump, caller, layers>>

\* x.dict(by_alias=...) on the parsed record x, and parse_obj of the result.
RoundTrip(by_alias) ==
    /\ parse # NoFrame
    /\ parse.out.kind = "return"
    /\ dump = NoFrame
    /\ dump' = [kind |-> "frame", by_alias |-> by_alias,
                wire |-> dict(parse.out.value, by_alias),
                again |-> parse_obj(parse.pydantic, parse.cls,
                                    dict(parse.out.value, by_alias))]
    /\ UNCHANGED <<client, ctor, pc, op, wire, response, resp, outcome, decoded, nreq,
                   calls, sent, arg, parse, caller, layers>>

ParseNext ==
    \/ /\ parse = NoFrame
       /\ \E ver \in Versions, M \in ResourceModels : \E v \in Inputs(M) : Parse(ver, M, v)
    \/ /\ parse # NoFrame
       /\ \E by_alias \in BOOLEAN : RoundTrip(by_alias)

SpecParse == ParseInit /\ [][ParseNext]_vars

(* Two calls that run at the same time on one client.  The client has no
   lock and no queue: a call reads self.base_url and self.session, and its
   request, its response and its result are locals of its own frame. *)

Threads == {"a", "b"}

\* Challonge(api_key=os.getenv("CHALLONGE_API_KEY")), with the key set.
challonge_obj ==
    __init__([api_key |-> JStr("KEY"), oauth_token |-> Null,
              authorization_type |-> "v1", base_url |-> DefaultBaseUrl]).self

Idle ==
    [kind |-> "thread", pc |-> "idle", op |-> "none", arg |-> NoFrame, wire |-> NoRequest,
     response |-> NoResponse, outcome |-> Pending]

ThreadsInit ==
    /\ client = challonge_obj
    /\ ctor = NoFrame
    /\ pc = "constructed"
    /\ op = "none"
    /\ wire = NoRequest
    /\ response = NoResponse
    /\ resp = Pending
    /\ outcome = Pending
    /\ decoded = FALSE
    /\ nreq = 0
    /\ calls = 0
    /\ sent = 0
    /\ arg = NoFrame
    /\ parse = NoFrame
    /\ dump = NoFrame
    /\ caller = NoFrame
    /\ threads = [t \in Threads |-> Idle]
    /\ current_tournament_id = ""
    /\ tasks = NoFrame
    /\ running = "none"

\* A call that takes a lock around session.request.
EnterOneAtATime(t) == \A u \in Threads \ {t} : threads[u].pc # "waiting"

\* Whether thread t may enter session.request now: always.
Enter(t) == TRUE

\* Thread t invokes endpoint method o; the method builds its request.
Begin(t, o, a) ==
    /\ threads[t].pc = "idle"
    /\ threads' = [threads EXCEPT ![t] =
                      [Idle EXCEPT !.pc = "calling", !.op = o, !.arg = a,
                                   !.wire = Request(client, o, a)]]
    /\ calls' = calls + 1
    /\ UNCHANGED <<client, ctor, pc, op, wire, response, resp, outcome, decoded, nreq, sent>>
    /\ UNCHANGED <<arg, parse, dump, caller, current_tournament_id, tasks, running>>

\* self.session.request(...) in thread t
Transmit(t) ==
    /\ threads[t].pc = "calling"
    /\ Enter(t)
    /\ threads' = [threads EXCEPT ![t].pc = "waiting"]
    /\ sent' = sent + 1
    /\ client' = SessionAfterRequest(client)
    /\ UNCHANGED <<ctor, pc, op, wire, response, resp, outcome, decoded, nreq, calls>>
    /\ UNCHANGED <<arg, parse, dump, caller, current_tournament_id, tasks, running>>

\* The network answers thread t's request, or fails to.
Receive(t, r) ==
    /\ threads[t].pc = "waiting"
    /\ threads' = [threads EXCEPT ![t].pc = "received", ![t].response = r]
    /\ UNCHANGED <<client, ctor, pc, op, wire, response, resp, outcome, decoded, nreq>>
    /\ UNCHANGED <<calls, sent, arg, parse, dump, caller, current_tournament_id, tasks, running>>

\* The rest of _request and of the endpoint method, in thread t.
Complete(t) ==
    /\ threads[t].pc = "received"
    /\ threads' = [threads EXCEPT
          ![t].pc = "returned",
          ![t].outcome = IF _request(threads[t].response).out.kind = "raise"
                         THEN _request(threads[t].response).out
                         ELSE Handle(threads[t].op, _request(threads[t].response).out.value)]
    /\ UNCHANGED <<client, ctor, pc, op, wire, response, resp, outcome, decoded, nreq>>
    /\ UNCHANGED <<calls, sent, arg, parse, dump, caller, current_tournament_id, tasks, running>>

ThreadsNext ==
    \/ \E t \in Threads, o \in Ops, a \in PathArgs : Begin(t, o, a)
    \/ \E t \in Threads : Transmit(t)
    \/ \E t \in Threads :
          \E r \in {HttpResponse(200, JsonText(Envelope(Item1))),
                    HttpResponse(500, EmptyContent)} : Receive(t, r)
    \/ \E t \in Threads : Complete(t)

SpecThreads == ThreadsInit /\ [][ThreadsNext]_vars

-----------------------------------------------------------------------------
(* The bot, src/sual.py.  The command handlers are coroutines on one event
   loop: a handler that runs keeps the loop until it awaits or ends, and the
   client calls it makes are plain calls that block the loop.  The only
   await of a handler is the send_message that answers the interaction. *)

MaxMatches == 2     \* longest list of matches find_matches answers with

Tasks == {"x", "y"}
TournamentIds == {"t1", "t2"}

\* interaction.user.roles
Member == [name |-> "member", administrator |-> FALSE]
Organizer == [name |-> "organizer", administrator |-> TRUE]

\* A check that lets every user through.
Everyone(roles) == TRUE

\* any(role.permissions.administrator for role in interaction.user.roles)
IsAdministrator(roles) == \E role \in roles : role.administrator

NoTask ==
    [kind |-> "task", cmd |-> "none", roles |-> {}, winner |-> "", loser |-> "",
     loser_score |-> 0, tournament_id |-> "", pc |-> "none", matches |-> <<>>, i |-> 0,
     player_1 |-> Null, player_2 |-> Null, calls |-> <<>>, messages |-> <<>>, exc |-> Null]

\* The slash commands the users send, with their arguments.  Invocation x
\* is of any command; y, which runs at the same time, is of set_tournament,
\* the one handler that writes a global.
Interactions(t) ==
    LET Command(cmd) == [NoTask EXCEPT !.cmd = cmd, !.pc = "start", !.roles = {Member}]
    IN {[Command(cmd) EXCEPT !.roles = roles, !.tournament_id = id] :
            cmd \in {"set_tournament"}, roles \in {{Member}, {Member, Organizer}},
            id \in TournamentIds}
       \cup IF t = "y" THEN {} ELSE
            {[Command("set_report") EXCEPT !.winner = n[1], !.loser = n[2],
                                            !.loser_score = s] :
                n \in {<<"Ann", "Bob">>, <<"Bob", "Ann">>}, s \in {0, 1}}
            \cup {[Command(cmd) EXCEPT !.roles = roles] :
                cmd \in {"advance_stage"}, roles \in {{}, {Member, Organizer}}}
            \cup {[Command("read_signups") EXCEPT !.tournament_id = "t1"]}

\* What the client's methods return to the bot: the parsed models, reduced
\* to the fields the handlers read.
MatchModel(id, state, points_by_participant) ==
    [kind |-> "match", id |-> id, state |-> state,
     points_by_participant |-> points_by_participant]
ParticipantModel(id, name) == [kind |-> "participant", id |-> id, name |-> name]

\* find_matches answers with a list of matches or raises.
FindMatchesOutcomes ==
    LET Known == {MatchModel("m1", "complete", JList(<<10, 20>>)),
                  MatchModel("m2", "open", JList(<<10, 20>>)),
                  MatchModel("m3", "open", Null),
                  MatchModel("m4", "open", JList(<<10>>))}
    IN {Return(l) : l \in UNION {[1..n -> Known] : n \in 0..MaxMatches}}
       \cup {Raise("HTTPError")}

\* show_participant answers with a participant or raises.
ShowParticipantOutcomes ==
    {Return(ParticipantModel("10", "Ann")), Return(ParticipantModel("20", "Bob")),
     Raise("HTTPError")}

\* The other calls return a model the handlers do not look into, or raise.
CallOutcomes == {Return(Null), Raise("HTTPError")}

\* One call of a method of challonge_obj, as the bot made it.
Call(name, tournament, id, body, out) ==
    [name |-> name, tournament |-> tournament, id |-> id, body |-> body,
     ok |-> out.kind = "return"]

\* A handler that gives up the event loop around every client call, as it
\* would with an awaited client.
YieldsAtEveryCall(at) == TRUE

\* Whether a handler that has come to `at` gives up the event loop there: at
\* its await, and when it has returned or raised.
Yields(at) == at \in {"awaiting", "done", "failed"}

\* lines 51-58: the ids of the first and of the last entry, as strings
Ids(points) ==
    [p1_id |-> IF Len(points.items) >= 1 THEN str(points.items[1]) ELSE "",
     p2_id |-> IF Len(points.items) >= 2 THEN str(points.items[Len(points.items)]) ELSE ""]

\* A pairing that takes player 1 for the winner in both orders.
FirstIsWinner(player_1, player_2, winner, loser) ==
    IF \/ player_1.name = winner /\ player_2.name = loser
       \/ player_2.name = winner /\ player_1.name = loser
    THEN [kind |-> "pair", winner_id |-> player_1.id, loser_id |-> player_2.id]
    ELSE [kind |-> "none"]

\* lines 65-75: who won and who lost, when the two names are the two given
WinnerLoser(player_1, player_2, winner, loser) ==
    IF player_1.name = winner /\ player_2.name = loser
    THEN [kind |-> "pair", winner_id |-> player_1.id, loser_id |-> player_2.id]
    ELSE IF player_2.name = winner /\ player_1.name = loser
    THEN [kind |-> "pair", winner_id |-> player_2.id, loser_id |-> player_1.id]
    ELSE [kind |-> "none"]

\* lines 78-98
match_attributes(pair, loser_score) ==
    [kind |-> "dict",
     match |-> <<[participant_id |-> pair.winner_id,
                  score_set |-> IF loser_score = 0 THEN "1,1" ELSE "1,0,1",
                  rank |-> 1, advancing |-> TRUE],
                 [participant_id |-> pair.loser_id,
                  score_set |-> IF loser_score = 0 THEN "0,0" ELSE "0,1,0",
                  rank |-> 2, advancing |-> FALSE]>>,
     tie |-> FALSE]

\* A scan that goes on after a match was updated.
KeepsScanning(out) == "scan"

\* lines 100-103: where set_report goes once update_match has returned
AfterUpdate(out) == "Reported"

\* The order "start", then "finalize_group_stage".
StartFirst == <<"start", "finalize_group_stage">>

\* lines 130-132: the state transitions advance_stage asks for, in order
Transitions == <<"finalize_group_stage", "start">>

\* A set_tournament that takes the id back when the lookup fails.
TakenBack(out, id) == IF out.kind = "raise" THEN "" ELSE id

\* lines 118-119: the global once show_tournament has returned or raised;
\* there is no handler around the lookup
AfterLookup(out, id) == id

\* line 104: the exceptions the try block of set_report catches
Caught(exc) == exc = "AttributeError"

\* An exception of type exc raised at a line of the try block: the scan
\* goes on with the next match when it is caught, and the handler ends
\* with it when it is not.
Except(f, exc, line) ==
    IF Caught(exc)
    THEN [f EXCEPT !.pc = "scan", !.i = @ + 1, !.player_1 = Null, !.player_2 = Null]
    ELSE [f EXCEPT !.pc = "failed", !.exc = [kind |-> "raise", exc |-> exc, line |-> line]]

\* An exception raised outside any try block.
Uncaught(f, exc, line) ==
    [f EXCEPT !.pc = "failed", !.exc = [kind |-> "raise", exc |-> exc, line |-> line]]

\* The frame of a handler that has ended holds no locals.
Settle(f) ==
    IF f.pc \in {"done", "failed"}
    THEN [f EXCEPT !.matches = <<>>, !.i = 0, !.player_1 = Null, !.player_2 = Null]
    ELSE f

clientVars ==
    <<client, ctor, pc, op, wire, response, resp, outcome, decoded, nreq, calls, sent,
      arg, parse, dump, caller, threads>>

BotInit ==
    /\ client = challonge_obj
    /\ ctor = NoFrame
    /\ pc = "constructed"
    /\ op = "none"
    /\ wire = NoRequest
    /\ response = NoResponse
    /\ resp = Pending
    /\ outcome = Pending
    /\ decoded = FALSE
    /\ nreq = 0
    /\ calls = 0
    /\ sent = 0
    /\ arg = NoFrame
    /\ parse = NoFrame
    /\ dump = NoFrame
    /\ caller = NoFrame
    /\ threads = NoFrame
    /\ current_tournament_id = ""
    /\ tasks = [t \in Tasks |-> NoTask]
    /\ running = "none"

\* Handler t has the event loop, or can take it.
Holds(t) == running \in {"none", t}

\* Handler t goes on to frame f.
Run(t, f) ==
    /\ tasks' = [tasks EXCEPT ![t] = Settle(f)]
    /\ running' = IF Yields(f.pc) THEN "none" ELSE t

\* A user sends a slash command; discord.py creates the handler's task.
Interact(t, interaction) ==
    /\ tasks[t].cmd = "none"
    /\ tasks' = [tasks EXCEPT ![t] = interaction]
    /\ UNCHANGED <<clientVars, current_tournament_id, running>>

\* await interaction.response.send_message(text), and the return after it
Respond(t, text) ==
    LET f == tasks[t]
    IN \/ /\ f.pc = text
          /\ Run(t, [f EXCEPT !.pc = "awaiting", !.messages = Append(@, text)])
       \/ /\ f.pc = "awaiting"
          /\ f.messages # <<>>
          /\ f.messages[Len(f.messages)] = text
          /\ Run(t, [f EXCEPT !.pc = "done"])

\* set_report(interaction, winner, winner_score, loser, loser_score)
set_report(t) ==
    LET f == tasks[t]
        cur == current_tournament_id
        match == f.matches[f.i]
        ids == Ids(match.points_by_participant)
        pair == WinnerLoser(f.player_1, f.player_2, f.winner, f.loser)
    IN
    /\ f.cmd = "set_report"
    /\ Holds(t)
    /\ UNCHANGED <<clientVars, current_tournament_id>>
    /\ \/ /\ f.pc = "start"                                       \* line 43
          /\ \E out \in FindMatchesOutcomes :
                LET g == [f EXCEPT !.calls = Append(@, Call("find_matches", cur, "", Null, out))]
                IN Run(t, IF out.kind = "return"
                          THEN [g EXCEPT !.pc = "scan", !.matches = out.value, !.i = 1]
                          ELSE Uncaught(g, out.exc, 43))
       \/ /\ f.pc = "scan"                                        \* lines 45-58
          /\ Run(t, IF f.i > Len(f.matches) THEN [f EXCEPT !.pc = "done"]
                    ELSE IF match.state = "complete" THEN [f EXCEPT !.i = @ + 1]
                    ELSE IF match.points_by_participant = Null THEN Except(f, "TypeError", 55)
                    ELSE [f EXCEPT !.pc = "player_1"])
       \/ /\ f.pc = "player_1"                                    \* line 61
          /\ \E out \in ShowParticipantOutcomes :
                LET g == [f EXCEPT !.calls =
                             Append(@, Call("show_participant", cur, ids.p1_id, Null, out))]
                IN Run(t, IF out.kind = "return"
                          THEN [g EXCEPT !.pc = "player_2", !.player_1 = out.value]
                          ELSE Except(g, out.exc, 61))
       \/ /\ f.pc = "player_2"                                    \* line 62
          /\ \E out \in ShowParticipantOutcomes :
                LET g == [f EXCEPT !.calls =
                             Append(@, Call("show_participant", cur, ids.p2_id, Null, out))]
                IN Run(t, IF out.kind = "return"
                          THEN [g EXCEPT !.pc = "names", !.player_2 = out.value]
                          ELSE Except(g, out.exc, 62))
       \/ /\ f.pc = "names"                                       \* lines 65-75
          /\ Run(t, IF pair.kind = "pair" THEN [f EXCEPT !.pc = "update_match"]
                    ELSE [f EXCEPT !.pc = "scan", !.i = @ + 1,
                                   !.player_1 = Null, !.player_2 = Null])
       \/ /\ f.pc = "update_match"                                \* lines 78-100
          /\ \E out \in CallOutcomes :
                LET g == [f EXCEPT !.calls =
                             Append(@, Call("update_match", cur, match.id,
                                            match_attributes(pair, f.loser_score), out))]
                IN Run(t, IF out.kind = "return"
                          THEN [g EXCEPT !.pc = AfterUpdate(out)]
                          ELSE Except(g, out.exc, 100))
       \/ Respond(t, "Reported")                                  \* lines 102-103

\* set_tournament(interaction, tournament_id)
set_tournament(t) ==
    LET f == tasks[t]
    IN
    /\ f.cmd = "set_tournament"
    /\ Holds(t)
    /\ UNCHANGED clientVars
    /\ \/ /\ f.pc = "start"                                       \* lines 116-118
          /\ current_tournament_id' = IF IsAdministrator(f.roles) THEN f.tournament_id
                                      ELSE current_tournament_id
          /\ Run(t, [f EXCEPT !.pc = IF IsAdministrator(f.roles) THEN "show_tournament"
                                     ELSE "You need to be an Admin"])
       \/ /\ f.pc = "show_tournament"                             \* line 119
          /\ \E out \in CallOutcomes :
                LET g == [f EXCEPT !.calls =
                             Append(@, Call("show_tournament", f.tournament_id, "", Null, out))]
                IN /\ current_tournament_id' = AfterLookup(out, current_tournament_id)
                   /\ Run(t, IF out.kind = "return" THEN [g EXCEPT !.pc = "Set tournament"]
                             ELSE Uncaught(g, out.exc, 119))
       \/ /\ UNCHANGED current_tournament_id
          /\ \/ Respond(t, "Set tournament")                      \* line 119
             \/ Respond(t, "You need to be an Admin")             \* line 121

\* advance_stage(interaction)
advance_stage(t) ==
    LET f == tasks[t]
        cur == current_tournament_id
    IN
    /\ f.cmd = "advance_stage"
    /\ Holds(t)
    /\ UNCHANGED <<clientVars, current_tournament_id>>
    /\ \/ /\ f.pc = "start"                                       \* line 129
          /\ Run(t, [f EXCEPT !.pc = IF IsAdministrator(f.roles) THEN "change_state"
                                     ELSE "You need to be an Admin",
                              !.i = 1])
       \/ /\ f.pc = "change_state"                                \* lines 130 and 132
          /\ \E out \in CallOutcomes :
                LET g == [f EXCEPT !.calls =
                             Append(@, Call("change_state_tournament", cur, "",
                                            Transitions[f.i], out))]
                IN Run(t, IF out.kind = "raise"
                          THEN Uncaught(g, out.exc, IF f.i = 1 THEN 130 ELSE 132)
                          ELSE IF f.i < Len(Transitions) THEN [g EXCEPT !.i = @ + 1]
                          ELSE [g EXCEPT !.pc = "Advanced"])
       \/ Respond(t, "Advanced")                                  \* line 134
       \/ Respond(t, "You need to be an Admin")                   \* line 136

\* set_singups(interaction, tournament_id, signups_channel_id), the handler
\* of read_signups: commands.Bot has get_guild and no getguild, so line 151
\* raises AttributeError before anything is stored.
set_singups(t) ==
    LET f == tasks[t]
    IN
    /\ f.cmd = "read_signups"
    /\ Holds(t)
    /\ f.pc = "start"
    /\ Run(t, Uncaught(f, "AttributeError", 151))
    /\ UNCHANGED <<clientVars, current_tournament_id>>

BotNext ==
    \/ \E t \in Tasks : \E interaction \in Interactions(t) : Interact(t, interaction)
    \/ \E t \in Tasks : set_report(t)
    \/ \E t \in Tasks : set_tournament(t)
    \/ \E t \in Tasks : advance_stage(t)
    \/ \E t \in Tasks : set_singups(t)

SpecBot == BotInit /\ [][BotNext]_vars

-----------------------------------------------------------------------------
(* Properties *)

IsHttpError(r) == r.kind = "response" /\ r.status_code >= 400 /\ r.status_code < 600
IsHttpSuccess(r) == r.kind = "response" /\ ~IsHttpError(r)

\* C1: a 4xx or 5xx answer makes every endpoint method raise an error that
\* carries the response (its status code and raw body) and return nothing;
\* a transport failure raises an error of another kind, with no response.
C1_ApiErrorCarriesResponse ==
    pc = "returned" =>
        /\ IsHttpError(response) =>
              /\ outcome.kind = "raise"
              /\ outcome.exc = "HTTPError"
              /\ outcome.response.kind = "response"
              /\ outcome.response.status_code = response.status_code
              /\ outcome.response.content = response.content
        /\ response.kind = "failure" =>
              /\ outcome.kind = "raise"
              /\ outcome.exc # "HTTPError"
              /\ outcome.response = NoResponse

C1_Witness ==
    /\ pc = "returned"
    /\ op = "create_tournament"
    /\ response = HttpResponse(422, JsonText(Envelope(Item1)))
    /\ outcome.kind = "raise"
    /\ outcome.exc = "HTTPError"

\* C2: for a successful answer, _request returns None when the status is 204
\* or the body is empty, without calling response.json(); otherwise it calls
\* response.json() and returns the decoded value.
C2_NoContentIsNotDecoded ==
    (pc = "returned" /\ IsHttpSuccess(response)) =>
        IF response.status_code = 204 \/ response.content = EmptyContent
        THEN resp = Return(Null) /\ ~decoded
        ELSE /\ decoded
             /\ response.content.kind = "json" => resp = Return(response.content.value)

C2_Witness ==
    /\ pc = "returned"
    /\ response = HttpResponse(204, JsonText(Envelope(Item1)))
    /\ resp = Return(Null)
    /\ ~decoded

\* C3: a call makes exactly one session.request, whatever the answer: the
\* requests made on the client are as many as the calls that reached
\* session.request, and no call makes a second one.
C3_OneRequestPerCall ==
    /\ nreq <= 1
    /\ pc \in {"waiting", "received", "returned"} => nreq = 1
    /\ sent = IF pc = "calling" THEN calls - 1 ELSE calls

C3_Witness ==
    /\ pc = "returned"
    /\ calls = 2
    /\ sent = 2
    /\ nreq = 1
    /\ outcome.kind = "raise"
    /\ outcome.exc = "Timeout"

\* C4: once constructed, the client's base URL and headers never change.
C4_ConfigurationIsImmutable ==
    [][client # NoClient => client' = client]_vars

C4_Witness ==
    /\ pc = "returned"
    /\ calls = 2
    /\ outcome.kind = "raise"
    /\ client = __init__([api_key |-> JStr("KEY"), oauth_token |-> Null,
                          authorization_type |-> "v1",
                          base_url |-> DefaultBaseUrl]).self

\* C5: construction succeeds exactly with a non-empty API key under scheme
\* v1 (sent as is) or a non-empty OAuth token under scheme v2 (sent as a
\* bearer credential); any other combination raises ValueError and leaves
\* no client.
NonEmptyStr(x) == x.kind = "str" /\ x.s # ""
C5_ConstructionNeedsMatchingCredential ==
    ctor.kind = "frame" =>
        LET a == ctor.args
            v1 == a.authorization_type = "v1" /\ NonEmptyStr(a.api_key)
            v2 == a.authorization_type = "v2" /\ NonEmptyStr(a.oauth_token)
        IN  IF v1 \/ v2
            THEN /\ ctor.exc = Null
                 /\ client # NoClient
                 /\ client.headers.authorization_type = JStr(a.authorization_type)
                 /\ v1 => client.headers.authorization = a.api_key
                 /\ v2 => client.headers.authorization = JStr("Bearer " \o a.oauth_token.s)
            ELSE /\ ctor.exc = JStr("ValueError")
                 /\ client = NoClient

C5_Witness ==
    /\ ctor.kind = "frame"
    /\ ctor.args.authorization_type = "v2"
    /\ ctor.args.api_key = JStr("KEY")
    /\ ctor.exc = Null
    /\ client # NoClient
    /\ client.headers.authorization = JStr("Bearer TOKEN")

\* The list operations of C6 and the model each parses into.
FindOps ==
    {"find_tournaments", "find_matches", "find_participants", "find_match_attachments",
     "find_races", "find_rounds", "find_elapsed_times", "find_communities",
     "find_community_tournaments", "find_community_matches",
     "find_community_participants", "find_community_match_attachments"}
BulkOps ==
    {"bulk_create_participants", "bulk_community_create_participant",
     "randomize_participants", "randomize_community_participants",
     "bulk_update_elapsed_times"}
ResultModel(o) ==
    CASE o \in {"find_tournaments", "find_community_tournaments"} -> "TournamentModel"
      [] o \in {"find_matches", "find_community_matches"} -> "MatchModel"
      [] o \in {"find_match_attachments", "find_community_match_attachments"} ->
           "MatchAttachmentModel"
      [] o = "find_races" -> "RaceModel"
      [] o = "find_rounds" -> "RoundModel"
      [] o \in {"find_elapsed_times", "bulk_update_elapsed_times"} -> "ElapsedTimeModel"
      [] o = "find_communities" -> "CommunityModel"
      [] o = "get_me" -> "UserModel"
      [] OTHER -> "ParticipantModel"

IsDataList(r) == r.kind = "dict" /\ r.data.kind = "list"
AllParse(T, items) == \A i \in DOMAIN items : ParseObj(T, items[i]).kind = "return"
ParsedInOrder(T, items) ==
    Return(JList([i \in DOMAIN items |-> ParseObj(T, items[i]).value]))

\* C6: a list operation answered with {"data": [e1, ..., en]} returns the
\* n parsed records in the server's order, element i being the parse of ei
\* (and raises, returning nothing, when some element does not parse).
C6_ListKeepsServerOrder ==
    (pc = "returned" /\ op \in FindOps /\ resp.kind = "return" /\ IsDataList(resp.value)) =>
        LET items == resp.value.data.items
            T == ResultModel(op)
        IN  IF AllParse(T, items)
            THEN /\ outcome = ParsedInOrder(T, items)
                 /\ Len(outcome.value.items) = Len(items)
            ELSE outcome = Raise("ValidationError")

C6_Witness ==
    /\ pc = "returned"
    /\ op = "find_matches"
    /\ resp = Return(Envelope(JList(<<Item2, Item1>>)))
    /\ outcome.kind = "return"
    /\ Len(outcome.value.items) = 2
    /\ outcome.value.items[1].id = "2"
    /\ outcome.value.items[2].id = "1"

MultiShapeOps == {"get_me", "create_participant", "create_community_participant"}
CreateOps == {"create_participant", "create_community_participant"}
IsBareResource(r) ==
    r.kind = "dict" /\ r.id # Absent /\ r.type # Absent /\ r.attributes # Absent
IsEnveloped(r) == r.kind = "dict" /\ r.data.kind = "dict"
IsNonEmptyList(r) == r.kind = "list" /\ r.items # <<>>

C8_NeverCoerces ==
    (pc = "returned" /\ op \in CreateOps /\ resp.kind = "return") =>
        LET r == resp.value
        IN  ~(IsEnveloped(r) \/ IsBareResource(r)) => outcome.kind = "raise"

\* C8: create_participant and create_community_participant raise ValueError
\* and return no record exactly when the answer is neither an object with a
\* "data" key nor a non-empty array (an empty array, an object without
\* "data", no content, a scalar); a non-empty array is taken for its first
\* element, the other elements being dropped.
C8_ValueErrorUnlessDataOrArray ==
    (pc = "returned" /\ op \in CreateOps /\ resp.kind = "return") =>
        LET r == resp.value
        IN  /\ (outcome = Raise("ValueError"))
                <=> ~((r.kind = "dict" /\ r.data # Absent) \/ IsNonEmptyList(r))
            /\ IsNonEmptyList(r) => outcome = ParseObj("ParticipantModel", r.items[1])

C8_Witness ==
    /\ pc = "returned"
    /\ op = "create_community_participant"
    /\ resp = Return(JList(<<>>))
    /\ outcome = Raise("ValueError")

\* C9 as stated: a list or bulk operation whose answer is not empty and is
\* not {"data": [...]} raises; it never returns an empty list instead.
C9_MalformedCollectionRaises ==
    (pc = "returned" /\ op \in FindOps \cup BulkOps /\ resp.kind = "return") =>
        LET r == resp.value
        IN  (~Falsy(r) /\ ~IsDataList(r)) => outcome.kind = "raise"

\* C10 as stated: a bulk participant creation answered with n participant
\* resources returns the n records in order, whether the answer is a bare
\* array or an array under "data".
C10_BulkCreateAcceptsBothShapes ==
    (pc = "returned" /\ resp.kind = "return"
     /\ op \in {"bulk_create_participants", "bulk_community_create_participant"}) =>
        LET r == resp.value
        IN  /\ (IsDataList(r) /\ AllParse("ParticipantModel", r.data.items)) =>
                  outcome = ParsedInOrder("ParticipantModel", r.data.items)
            /\ (r.kind = "list" /\ AllParse("ParticipantModel", r.items)) =>
                  outcome = ParsedInOrder("ParticipantModel", r.items)


-----------------------------------------------------------------------------
(* Request bodies and query strings *)

InCall == {"calling", "waiting", "received", "returned"}
HasKeys(d, keys) == d.kind = "dict" /\ DOMAIN d = keys \cup {"kind"}
\* d is {data: {type: t, attributes: m}} and nothing else.
IsWrapped(d, t, m) ==
    /\ HasKeys(d, {"data"})
    /\ HasKeys(d.data, {"type", "attributes"})
    /\ d.data.type = JStr(t)
    /\ d.data.attributes = m

\* C11: a bulk create sends one request whose body is the parent envelope
\* around a single `participants` attribute holding the caller's whole list
\* in the caller's order, however long the list is.
C11_BulkCreateSendsWholeList ==
    (pc \in InCall /\ op \in ParticipantListOps) =>
        /\ HasKeys(wire.json, {"data"})
        /\ HasKeys(wire.json.data, {"type", "attributes"})
        /\ wire.json.data.type = JStr("Participants")
        /\ HasKeys(wire.json.data.attributes, {"participants"})
        /\ wire.json.data.attributes.participants.kind = "list"
        /\ Len(wire.json.data.attributes.participants.items) = Len(arg.participants.items)
        /\ \A i \in DOMAIN arg.participants.items :
              wire.json.data.attributes.participants.items[i] = arg.participants.items[i]
        /\ nreq <= 1
        /\ (pc = "returned" => nreq = 1)

\* A list longer than the documented batch went out whole, in one request.
C11_Witness ==
    /\ pc = "returned"
    /\ op = "bulk_create_participants"
    /\ Len(arg.participants.items) > BatchSize
    /\ Len(wire.json.data.attributes.participants.items) = Len(arg.participants.items)
    /\ nreq = 1

\* C12 (as stated): every method that takes an attribute mapping sends
\* exactly {data: {type: <literal>, attributes: <the mapping>}}; none sends
\* the mapping unwrapped or with keys added or removed.
C12_EveryWriteWrapsTheMapping ==
    (pc \in InCall /\ op \in MappingOps \cup UnwrappedOps) =>
        \E t \in {"Tournaments", "Match", "MatchState", "Participants", "match_attachment",
                  "Race", "RoundStateInput", "ElaspedTime"} :
            IsWrapped(wire.json, t, arg.attributes)

ChangeOps == NewStateOps \cup {"change_stage_community_tournament"}
\* The resource a change-state method changes.
ParentModel(o) ==
    CASE o \in {"change_state_tournament", "change_state_community_tournament",
                "change_stage_community_tournament"} -> "TournamentModel"
      [] o = "change_state_match" -> "MatchModel"
      [] o = "change_state_race" -> "RaceModel"

\* C13 (as stated): each of the five change-state/change-stage methods sends
\* attributes holding the state attribute alone, with the caller's token
\* untouched, and returns its parent resource parsed as the parent's type.
C13_ChangeSendsOnlyState ==
    (pc \in InCall /\ op \in ChangeOps) =>
        /\ HasKeys(wire.json, {"data"})
        /\ HasKeys(wire.json.data, {"type", "attributes"})
        /\ HasKeys(wire.json.data.attributes, {"state"})
        /\ (pc = "returned" /\ outcome.kind = "return" =>
                outcome.value.model = ParentModel(op))

\* C13 (amended): the four change_state_* methods send {"state": token} with
\* the token untouched and return the parent parsed as the parent's type;
\* change_stage_community_tournament sends the caller's mapping as the
\* attributes, under type MatchState, and returns a MatchModel.
C13_ChangeStateSendsToken ==
    /\ (pc \in InCall /\ op \in NewStateOps) =>
          /\ \E t \in {"TournamentState", "MatchState", "RaceState"} :
                IsWrapped(wire.json, t, [kind |-> "dict", state |-> arg.new_state])
          /\ (pc = "returned" /\ outcome.kind = "return" =>
                  outcome.value.model = ParentModel(op))
    /\ (pc \in InCall /\ op = "change_stage_community_tournament") =>
          /\ IsWrapped(wire.json, "MatchState", arg.attributes)
          /\ (pc = "returned" /\ outcome.kind = "return" =>
                  outcome.value.model = "MatchModel")

\* An undocumented token went out as given and the parent came back.
C13_Witness ==
    /\ pc = "returned"
    /\ op = "change_state_tournament"
    /\ arg.new_state = JStr("bogus")
    /\ wire.json.data.attributes.state = JStr("bogus")
    /\ outcome.kind = "return"
    /\ outcome.value.model = "TournamentModel"

\* The decimal numerals of the page numbers and sizes the callers pass.
Numeral(n) ==
    CASE n = 1 -> "1" [] n = 3 -> "3" [] n = 25 -> "25" [] n = 100 -> "100"
      [] n = 1000 -> "1000"

\* C14: a paginated list method sends page and per_page as the plain decimal
\* numerals of the caller's values, of 1 and 25 where the caller gave none.
C14_PaginationAsDecimalStrings ==
    (pc \in InCall /\ op \in PaginatedOps) =>
        /\ wire.params.kind = "params"
        /\ wire.params.page =
              JStr(Numeral(IF arg.page = Absent THEN 1 ELSE arg.page.n))
        /\ wire.params.per_page =
              JStr(Numeral(IF arg.per_page = Absent THEN 25 ELSE arg.per_page.n))

\* A four-digit page with the default page size.
C14_Witness ==
    /\ pc = "waiting"
    /\ op = "find_rounds"
    /\ arg.page = JInt(1000)
    /\ arg.per_page = Absent
    /\ wire.params.page = JStr("1000")
    /\ wire.params.per_page = JStr("25")

FilterKeys == {"state", "type", "participant_id", "created_after", "created_before"}
\* The value the caller gave for filter k of method o; None where o has no
\* such filter.
Supplied(o, k, a) ==
    CASE k = "state" /\ o \in TournamentFilterOps \cup MatchFilterOps -> a.state
      [] k = "type" /\ o \in TournamentFilterOps -> a.tournament_type
      [] k = "created_after" /\ o \in TournamentFilterOps -> a.created_after
      [] k = "created_before" /\ o \in TournamentFilterOps -> a.created_before
      [] k = "participant_id" /\ o \in MatchFilterOps -> a.by_participant_id
      [] OTHER -> Null

\* C15 (as stated): a filter is in the query exactly when the caller gave a
\* value for it, and any string, the empty one included, goes out verbatim.
C15_FilterSentIffSupplied ==
    (pc \in InCall /\ op \in PaginatedOps) =>
        \A k \in FilterKeys :
            wire.params[k] = IF Supplied(op, k, arg) = Null THEN Absent
                             ELSE Supplied(op, k, arg)

\* C15 (amended): a filter is in the query exactly when the caller gave a
\* non-empty string for it, which goes out verbatim; a filter left unset or
\* given as the empty string is left out.  The only other key next to
\* page and per_page is the match_id of find_community_match_attachments.
C15_FilterSentIffNonEmpty ==
    (pc \in InCall /\ op \in PaginatedOps) =>
        /\ \A k \in FilterKeys :
              wire.params[k] = IF Supplied(op, k, arg) \in {Null, JStr("")} THEN Absent
                               ELSE Supplied(op, k, arg)
        /\ wire.params.match_id =
              IF op = "find_community_match_attachments" THEN JStr(arg.match_id)
              ELSE Absent

\* One filter given as "", another as a token: only the second is sent.
C15_Witness ==
    /\ pc = "waiting"
    /\ op = "find_matches"
    /\ arg.state = JStr("")
    /\ arg.by_participant_id = JStr("open")
    /\ wire.params.state = Absent
    /\ wire.params.participant_id = JStr("open")


-----------------------------------------------------------------------------
(* Parsing and serialization *)

Parsed == parse.kind = "frame"
ParsedOk == Parsed /\ parse.out.kind = "return"
RawAttributes == Get(parse.raw, "attributes")
\* The attributes of the record the parse returned.
Attributes == parse.out.value.fields.attributes.fields

\* C16 (as stated): a resource whose id is absent or not a string, and a
\* tournament whose name or tournament_type is absent or not a string, fails
\* to parse with a validation error.
C16_WrongKindFailsParse ==
    Parsed =>
        LET wrongId == Get(parse.raw, "id").kind # "str"
            wrongTournament ==
                /\ parse.cls = "TournamentModel"
                /\ RawAttributes.kind = "dict"
                /\ \/ Get(RawAttributes, "name").kind # "str"
                   \/ Get(RawAttributes, "tournament_type").kind # "str"
        IN  (wrongId \/ wrongTournament) => parse.out = Raise("ValidationError")

OnlyNameAndType ==
    /\ Parsed
    /\ parse.cls = "TournamentModel"
    /\ Get(parse.raw, "id").kind = "str"
    /\ Get(parse.raw, "type").kind = "str"
    /\ RawAttributes.kind = "dict"
    /\ DOMAIN RawAttributes = {"kind", "name", "tournament_type"}
    /\ RawAttributes.name.kind = "str"
    /\ RawAttributes.tournament_type.kind = "str"
OptionBlocks ==
    {n \in FieldNames("TournamentAttributes") :
        FieldOf("TournamentAttributes", n).type \notin Scalars \cup {"Timestamps"}}

\* C17 (as stated): a tournament answered with name and tournament_type
\* only is returned with every other scalar at its default and every nested
\* option block present with its documented defaults (group size 4, swiss
\* rounds 2, ...).
C17_UnsetBlocksTakeDocumentedDefaults ==
    OnlyNameAndType =>
        /\ parse.out.kind = "return"
        /\ \A n \in OptionBlocks :
              Attributes[n] = Instance(FieldOf("TournamentAttributes", n).type)
        /\ Attributes.group_stage_options.fields.group_size = JInt(4)
        /\ Attributes.swiss_options.fields.rounds = JInt(2)

\* C17 (amended): a tournament answered with name and tournament_type only
\* is returned with `private` and `group_stage_enabled` false, every other
\* unset scalar None, and every nested block (the option blocks and the
\* timestamps) None.
C17_UnsetBlocksAreNone ==
    OnlyNameAndType =>
        /\ parse.out.kind = "return"
        /\ Attributes.name = RawAttributes.name
        /\ Attributes.tournament_type = RawAttributes.tournament_type
        /\ Attributes.private = JBool(FALSE)
        /\ Attributes.group_stage_enabled = JBool(FALSE)
        /\ \A n \in FieldNames("TournamentAttributes")
                     \ {"name", "tournament_type", "private", "group_stage_enabled"} :
              Attributes[n] = Null

\* A tournament with name and tournament_type only came back with no
\* option block.
C17_Witness ==
    /\ OnlyNameAndType
    /\ parse.out.kind = "return"
    /\ Attributes.group_stage_options = Null
    /\ Attributes.swiss_options = Null
    /\ Attributes.private = JBool(FALSE)

\* C18 (as stated): a record that parse returned, serialized and parsed
\* again, is the same record.
C18_RoundTrip ==
    dump.kind = "frame" => dump.again = parse.out

RECURSIVE Known(_, _)
\* The dict d of class C without the keys that no field of C, or of the
\* classes nested in it, is read from.
Known(C, d) ==
    IF d.kind # "dict" THEN d
    ELSE LET fs == Fields(C)
             field(k) == fs[CHOOSE i \in DOMAIN fs : fs[i].alias = k]
         IN  [k \in {k \in DOMAIN d :
                        k = "kind" \/ \E i \in DOMAIN fs : fs[i].alias = k} |->
                 IF k = "kind" THEN d[k]
                 ELSE IF field(k).type \in Scalars THEN d[k]
                 ELSE Known(field(k).type, d[k])]

\* C19: parsing a resource that carries unknown fields gives what parsing
\* it without them gives: the same record, or the same failure.
C19_UnknownFieldsIgnored ==
    Parsed => parse.out = parse_obj(parse.pydantic, parse.cls, Known(parse.cls, parse.raw))

\* A resource with an unknown attribute and an unknown member parsed.
C19_Witness ==
    /\ ParsedOk
    /\ "unknown" \in DOMAIN RawAttributes
    /\ Known(parse.cls, parse.raw) # parse.raw
    /\ parse.out = parse_obj(parse.pydantic, parse.cls, Known(parse.cls, parse.raw))

\* The answer is a resource with a string id and type whose attributes hold
\* valid values for some of the attribute fields and nothing else.
SparseAnswer ==
    /\ Parsed
    /\ Get(parse.raw, "id").kind = "str"
    /\ Get(parse.raw, "type").kind = "str"
    /\ RawAttributes.kind = "dict"
    /\ RawAttributes =
          DictOf(AttributesOf(parse.cls),
                 {n \in FieldNames(AttributesOf(parse.cls)) :
                     FieldOf(AttributesOf(parse.cls), n).alias \in DOMAIN RawAttributes})

\* C20: a resource whose attributes omit any of their fields parses, unless
\* it is a tournament without name or tournament_type; the omitted fields
\* come back at their defaults, and a match whose relationships, player1 or
\* player2 are absent or null comes back with them None.
C20_OmittedFieldsParse ==
    SparseAnswer =>
        /\ parse.out.kind = "return" <=>
              (parse.cls = "TournamentModel" =>
                  {"name", "tournament_type"} \subseteq DOMAIN RawAttributes)
        /\ parse.out.kind = "return" =>
              /\ \A n \in FieldNames(AttributesOf(parse.cls)) :
                    FieldOf(AttributesOf(parse.cls), n).alias \notin DOMAIN RawAttributes
                        => Attributes[n] = FieldOf(AttributesOf(parse.cls), n).default
              /\ parse.cls = "MatchModel" =>
                    LET r == Get(parse.raw, "relationships")
                        out == parse.out.value.fields.relationships
                    IN  /\ r \in {Absent, Null} => out = Null
                        /\ r.kind = "dict" =>
                              \A p \in {"player1", "player2"} :
                                  Get(r, p) \in {Absent, Null} => out.fields[p] = Null

\* A match with no attribute at all and both players null parsed.
C20_Witness ==
    /\ ParsedOk
    /\ parse.cls = "MatchModel"
    /\ RawAttributes = NoKeys
    /\ Get(parse.raw, "relationships").kind = "dict"
    /\ Get(Get(parse.raw, "relationships"), "player1") = Null
    /\ Get(Get(parse.raw, "relationships"), "player2") = Null
    /\ parse.out.value.fields.relationships.fields.player1 = Null
    /\ parse.out.value.fields.attributes.fields.state = Null

-----------------------------------------------------------------------------
(* Community-scoped operations, and the caller's arguments *)

\* The top-level operation that does for a tournament what the
\* community-scoped operation o does for a tournament of a community.
Counterpart(o) ==
    CASE o = "find_community_tournaments" -> "find_tournaments"
      [] o = "create_community_tournament" -> "create_tournament"
      [] o = "show_community_tournament" -> "show_tournament"
      [] o = "update_community_tournament" -> "update_tournament"
      [] o = "delete_community_tournament" -> "delete_tournament"
      [] o = "change_state_community_tournament" -> "change_state_tournament"
      [] o = "find_community_matches" -> "find_matches"
      [] o = "show_community_match" -> "show_match"
      [] o = "update_community_match" -> "update_match"
      [] o = "find_community_participants" -> "find_participants"
      [] o = "create_community_participant" -> "create_participant"
      [] o = "show_community_participant" -> "show_participant"
      [] o = "update_community_participant" -> "update_participant"
      [] o = "delete_community_participant" -> "delete_participant"
      [] o = "bulk_community_create_participant" -> "bulk_create_participants"
      [] o = "clear_all_community_participants" -> "clear_all_participants"
      [] o = "randomize_community_participants" -> "randomize_participants"
      [] o = "find_community_match_attachments" -> "find_match_attachments"
      [] o = "create_community_match_attachment" -> "create_match_attachment"
      [] o = "delete_community_match_attachment" -> "delete_match_attachment"
      [] OTHER -> "none"

\* What endpoint method o returns or raises when the network answers r.
Alone(o, r) ==
    IF _request(r).out.kind = "raise" THEN _request(r).out
    ELSE Handle(o, _request(r).out.value)

\* C21: a community-scoped operation sends the method, the query and the
\* body that its top-level counterpart sends for the same arguments, and
\* returns or raises what the counterpart does on the same answer.
C21_CommunityBehavesAsTopLevel ==
    (pc \in InCall /\ Counterpart(op) # "none") =>
        /\ wire.method = Method(Counterpart(op))
        /\ wire.params = Params(Counterpart(op), arg)
        /\ wire.json = Payload(Counterpart(op), arg)
        /\ (pc = "returned") => (outcome = Alone(Counterpart(op), response))

\* C30: when a write operation has returned or raised, the mapping and the
\* list the caller passed hold what they held before the call.
C30_ArgumentsLeftAlone ==
    (pc = "returned" /\ (op \in MappingOps \/ op \in ParticipantListOps)) =>
        /\ caller.attributes = arg.attributes
        /\ caller.participants = arg.participants


\* The step thread t takes next, whatever it is.
Step(t) ==
    \/ Transmit(t)
    \/ \E r \in {HttpResponse(500, EmptyContent)} : Receive(t, r)
    \/ Complete(t)

-----------------------------------------------------------------------------
(* The bot's command handlers *)

\* Handler t makes a client call in this step, and the call it makes.
NewCall(t) == Len(tasks'[t].calls) > Len(tasks[t].calls)
LastCall(t) == tasks'[t].calls[Len(tasks'[t].calls)]
Updates(c) == {k \in 1..Len(c) : c[k].name = "update_match"}

\* C23: set_report is never ended by what it finds in one match record;
\* only the listing of the matches (line 43) and the update (line 100) can
\* end it with an exception.
C23_MalformedRecordIsSkipped ==
    \A t \in Tasks :
        (tasks[t].cmd = "set_report" /\ tasks[t].pc = "failed") =>
            tasks[t].exc.line \in {43, 100}

\* C24: one run of set_report calls update_match at most once and never
\* for a complete match; it sends its message only right after an
\* update_match that returned, and when it ends it has sent a message
\* exactly if an update_match of its own returned.
C24_OneUpdateAndItsMessage ==
    [][\A t \in Tasks :
          tasks[t].cmd = "set_report" =>
            /\ (NewCall(t) /\ LastCall(t).name = "update_match") =>
                  /\ Updates(tasks[t].calls) = {}
                  /\ tasks[t].matches[tasks[t].i].state # "complete"
            /\ (Len(tasks'[t].messages) > Len(tasks[t].messages)) =>
                  /\ tasks[t].messages = <<>>
                  /\ tasks[t].calls # <<>>
                  /\ Len(tasks[t].calls) \in Updates(tasks[t].calls)
                  /\ tasks[t].calls[Len(tasks[t].calls)].ok
            /\ (tasks'[t].pc \in {"done", "failed"}) =>
                  ((tasks'[t].messages # <<>>)
                     <=> (\E k \in Updates(tasks'[t].calls) : tasks'[t].calls[k].ok))
      ]_vars

\* set_report has skipped a complete match, updated the open one after it
\* and answered.
C24_Witness ==
    /\ tasks["x"].cmd = "set_report"
    /\ tasks["x"].pc = "done"
    /\ tasks["x"].messages = <<"Reported">>
    /\ Len(tasks["x"].calls) = 4
    /\ tasks["x"].calls[4].name = "update_match"
    /\ tasks["x"].calls[4].id = "m2"

\* C25: when set_report calls update_match, the names of the two
\* participants it looked up are the given winner and loser; the entry of
\* rank 1 advances and is the participant named `winner`, the entry of
\* rank 2 does not advance and is the participant named `loser`, and tie
\* is false.
C25_UpdateNamesWinnerAndLoser ==
    [][\A t \in Tasks :
          (tasks[t].cmd = "set_report" /\ NewCall(t) /\ LastCall(t).name = "update_match") =>
            LET f == tasks[t]
                entries == LastCall(t).body.match
                Named(n, id) == \E p \in {f.player_1, f.player_2} : p.name = n /\ p.id = id
            IN /\ {f.player_1.name, f.player_2.name} = {f.winner, f.loser}
               /\ LastCall(t).body.tie = FALSE
               /\ Cardinality({k \in 1..Len(entries) : entries[k].rank = 1}) = 1
               /\ Cardinality({k \in 1..Len(entries) : entries[k].rank = 2}) = 1
               /\ \A k \in 1..Len(entries) :
                     /\ entries[k].rank = 1 =>
                           entries[k].advancing /\ Named(f.winner, entries[k].participant_id)
                     /\ entries[k].rank = 2 =>
                           ~entries[k].advancing /\ Named(f.loser, entries[k].participant_id)
      ]_vars

\* set_report has updated a match whose second participant is the winner.
C25_Witness ==
    /\ tasks["x"].cmd = "set_report"
    /\ tasks["x"].pc = "Reported"
    /\ tasks["x"].winner = "Bob"
    /\ tasks["x"].player_1.name = "Ann"
    /\ tasks["x"].player_2.name = "Bob"
    /\ tasks["x"].calls[Len(tasks["x"].calls)].body.match[1].participant_id = "20"

\* C26: all the client calls of one run of set_report or advance_stage
\* name the same tournament.
C26_OneTournamentPerRun ==
    \A t \in Tasks :
        tasks[t].cmd \in {"set_report", "advance_stage"} =>
            \A j, k \in 1..Len(tasks[t].calls) :
                tasks[t].calls[j].tournament = tasks[t].calls[k].tournament

\* set_report waits at its await with its calls made, and a set_tournament
\* that ran meanwhile has changed the global.
C26_Witness ==
    /\ tasks["x"].cmd = "set_report"
    /\ tasks["x"].pc = "awaiting"
    /\ Len(tasks["x"].calls) >= 4
    /\ tasks["y"].cmd = "set_tournament"
    /\ tasks["y"].pc = "show_tournament"
    /\ current_tournament_id = "t2"
    /\ tasks["x"].calls[1].tournament = ""

\* C27: advance_stage asks for "finalize_group_stage" and then for "start",
\* for "start" only when the first call returned, and sends its
\* confirmation only when both returned; called by a user without an
\* administrator role it asks for nothing.
C27_FinalizeThenStart ==
    \A t \in Tasks :
        tasks[t].cmd = "advance_stage" =>
            LET c == tasks[t].calls
            IN /\ Len(c) <= 2
               /\ \A k \in 1..Len(c) : c[k].name = "change_state_tournament"
               /\ Len(c) >= 1 => c[1].body = "finalize_group_stage"
               /\ Len(c) = 2 => (c[2].body = "start" /\ c[1].ok)
               /\ ("Advanced" \in {tasks[t].messages[k] : k \in 1..Len(tasks[t].messages)})
                     => (Len(c) = 2 /\ c[1].ok /\ c[2].ok)
               /\ (Organizer \notin tasks[t].roles) => c = <<>>

\* An administrator's advance_stage has made both calls and confirmed.
C27_Witness ==
    /\ tasks["x"].cmd = "advance_stage"
    /\ tasks["x"].pc = "done"
    /\ tasks["x"].messages = <<"Advanced">>
    /\ Len(tasks["x"].calls) = 2
    /\ tasks["x"].calls[2].ok

\* C28: a step changes current_tournament_id only when it is a step of a
\* set_tournament whose user holds an administrator role, and then to the
\* id that was given.
C28_OnlyAdministratorsSetTournament ==
    [][current_tournament_id' # current_tournament_id =>
          \E t \in Tasks :
              /\ tasks[t].cmd = "set_tournament"
              /\ Organizer \in tasks[t].roles
              /\ tasks'[t] # tasks[t]
              /\ current_tournament_id' = tasks[t].tournament_id
      ]_vars

\* A set_tournament("t2") by a plain member has been refused and has left
\* the id an administrator had set.
C28_Witness ==
    /\ tasks["x"].cmd = "set_tournament"
    /\ tasks["x"].roles = {Member}
    /\ tasks["x"].tournament_id = "t2"
    /\ tasks["x"].pc = "done"
    /\ tasks["x"].messages = <<"You need to be an Admin">>
    /\ tasks["y"].pc = "done"
    /\ current_tournament_id = "t1"

\* C29: when an administrator's set_tournament looks the tournament up,
\* the global already holds the given id, and no later step of the
\* handler changes it, whether the lookup returns or raises.
C29_AssignedBeforeLookupAndKept ==
    [][\A t \in Tasks :
          (tasks[t].cmd = "set_tournament" /\ tasks'[t] # tasks[t] /\ tasks[t].pc # "start") =>
            /\ current_tournament_id' = current_tournament_id
            /\ NewCall(t) => current_tournament_id = tasks[t].tournament_id
      ]_vars

\* The lookup of set_tournament("t2") has failed, and a set_report that
\* came after it asks for the matches of t2.
C29_Witness ==
    /\ tasks["y"].cmd = "set_tournament"
    /\ tasks["y"].pc = "failed"
    /\ tasks["y"].tournament_id = "t2"
    /\ tasks["x"].cmd = "set_report"
    /\ tasks["x"].calls # <<>>
    /\ tasks["x"].calls[1].tournament = "t2"
    /\ current_tournament_id = "t2"


=============================================================================
